---- MODULE Spec2Model ----
(***************************************************************************)
(* Domain randomization and capture sweep of the synthetic data generator. *)
(*                                                                         *)
(* Four implementations of the sweep live in the repository and are        *)
(* modelled side by side; `variant' says which component is mounted:       *)
(*   "Panel"     SyntheticDataPanel.tsx 107-1397: useEffect baseline,      *)
(*               restoreOriginalScene, handleRandomizeScene and the        *)
(*               in-place generateSyntheticData                            *)
(*   "PanelOld"  unnamed/part_001: the same panel with the earlier         *)
(*               handleRandomizeScene (restore, then perturb in place)     *)
(*   "Generate"  SyntheticDataPanel.tsx 1408-1663: handleGenerate with a   *)
(*               local baseline                                            *)
(*   "Settings"  SyntheticDataSettings.tsx handleGenerate calling          *)
(*               generators.ts generateSyntheticData (clone based)         *)
(*                                                                         *)
(* Numbers are integers.  Math.random() is k/2 for a draw k in 0..2, so    *)
(* (Math.random() - 0.5) * r * 2 is (k - 1) * r.  Rotations are held in    *)
(* units of PI/180, colour channels in units of 1/2 (ColorOne is 1.0).     *)
(***************************************************************************)
EXTENDS Integers, Sequences, FiniteSets, TLC

\* ---------------------------------------------------------------- bounds
MaxSamples == 2
MaxCameras == 2
MaxRequests == 2
NumStreams == 3

\* ------------------------------------------------------- scene objects
ObjList == <<"mesh1", "light1", "dlight1", "cam1">>
Objects == {ObjList[k] : k \in 1..Len(ObjList)}
ObjIndex(o) == CHOOSE k \in 1..Len(ObjList) : ObjList[k] = o

isLight(o) == o \in {"light1", "dlight1"}
isCamera(o) == o = "cam1"
isDirectionalLight(o) == o = "dlight1"

ColorOne == 2

InitialScene ==
  [o \in Objects |->
     IF o = "mesh1" THEN
       [position |-> <<1, 2, -1>>, rotation |-> <<0, 10, 0>>,
        scale |-> <<1, 1, 2>>, intensity |-> 0, color |-> <<0, 0, 0>>]
     ELSE IF o = "light1" THEN
       [position |-> <<0, 4, 0>>, rotation |-> <<0, 0, 0>>,
        scale |-> <<1, 1, 1>>, intensity |-> 2, color |-> <<2, 1, 2>>]
     ELSE IF o = "dlight1" THEN
       [position |-> <<3, 6, 3>>, rotation |-> <<5, 0, 0>>,
        scale |-> <<1, 1, 1>>, intensity |-> 4, color |-> <<2, 2, 0>>]
     ELSE
       [position |-> <<5, 5, 5>>, rotation |-> <<0, 0, 0>>,
        scale |-> <<1, 1, 1>>, intensity |-> 0, color |-> <<0, 0, 0>>]]

\* ------------------------------------------------ randomization settings
PositionRange == <<2, 1, 2>>
RotationRange == <<45, 180, 45>>
ScaleMin == 1
ScaleMax == 3
IntensityMin == 1
IntensityMax == 3

\* The registered settings: the default (everything on, uniform scale), the
\* per-axis scale variant, and the master switch turned off.
RandomizationSettings ==
  { [enabled |-> TRUE, position |-> TRUE, rotation |-> TRUE, scale |-> TRUE,
     uniform |-> TRUE, lighting |-> TRUE, colorVariation |-> 1],
    [enabled |-> TRUE, position |-> TRUE, rotation |-> TRUE, scale |-> TRUE,
     uniform |-> FALSE, lighting |-> TRUE, colorVariation |-> 1],
    [enabled |-> FALSE, position |-> TRUE, rotation |-> TRUE, scale |-> TRUE,
     uniform |-> TRUE, lighting |-> TRUE, colorVariation |-> 1] }

\* ------------------------------------------------------------ arithmetic
Max(a, b) == IF a >= b THEN a ELSE b
Min(a, b) == IF a <= b THEN a ELSE b
clamp(v, lo, hi) == Max(lo, Min(hi, v))

\* The k-th Math.random() result of a randomize pass, numerator over 2.
Streams == 0..(NumStreams - 1)
Draw(s, slot) == (s + slot * (1 + (s \div 3))) % 3

\* One draw slot per object and randomized quantity.
Slot(o, c) == 14 * (ObjIndex(o) - 1) + c

\* (Math.random() - 0.5) * range * 2
Jitter(s, o, c, range) == (Draw(s, Slot(o, c)) - 1) * range

\* min + Math.random() * (max - min)
Factor(s, o, c, lo, hi) == lo + (Draw(s, Slot(o, c)) * (hi - lo)) \div 2

\* ------------------------------------------------------ baseline capture
\* useEffect body (Panel): every object goes into the transform map, every
\* light into the light map.
CaptureTransforms(sc, objs) ==
  [o \in objs |-> [position |-> sc[o].position, rotation |-> sc[o].rotation,
                   scale |-> sc[o].scale]]

CaptureLights(sc, objs) ==
  [o \in {l \in objs : isLight(l)} |->
     [intensity |-> sc[o].intensity, color |-> sc[o].color]]

\* A restore that forgets obj.scale.copy(original.scale).
restoreOriginalSceneNoScale(sc, tr, li) ==
  [o \in Objects |->
     LET a == IF o \in DOMAIN tr
              THEN [sc[o] EXCEPT !.position = tr[o].position,
                                 !.rotation = tr[o].rotation]
              ELSE sc[o]
     IN IF isLight(o) /\ o \in DOMAIN li
        THEN [a EXCEPT !.intensity = li[o].intensity, !.color = li[o].color]
        ELSE a]

\* restoreOriginalScene (Panel, PanelOld): copy the baseline back on every
\* object that has an entry.
restoreOriginalScene(sc, tr, li) ==
  [o \in Objects |->
     LET a == IF o \in DOMAIN tr
              THEN [sc[o] EXCEPT !.position = tr[o].position,
                                 !.rotation = tr[o].rotation,
                                 !.scale = tr[o].scale]
              ELSE sc[o]
     IN IF isLight(o) /\ o \in DOMAIN li
        THEN [a EXCEPT !.intensity = li[o].intensity, !.color = li[o].color]
        ELSE a]

\* ----------------------------------------------- Panel.handleRandomizeScene
PanelPosition(o, obj, cfg, tr, s) ==
  IF ~isLight(o) /\ cfg.position /\ o \in DOMAIN tr
  THEN <<tr[o].position[1] + Jitter(s, o, 0, PositionRange[1]),
         tr[o].position[2] + Max(0, Jitter(s, o, 1, PositionRange[2])),
         tr[o].position[3] + Jitter(s, o, 2, PositionRange[3])>>
  ELSE obj.position

PanelRotation(o, obj, cfg, tr, s) ==
  IF (~isLight(o) \/ isDirectionalLight(o)) /\ cfg.rotation /\ o \in DOMAIN tr
  THEN <<tr[o].rotation[1] + Jitter(s, o, 3, RotationRange[1]),
         tr[o].rotation[2] + Jitter(s, o, 4, RotationRange[2]),
         tr[o].rotation[3] + Jitter(s, o, 5, RotationRange[3])>>
  ELSE obj.rotation

PanelScale(o, obj, cfg, tr, s) ==
  IF ~isLight(o) /\ cfg.scale /\ o \in DOMAIN tr
  THEN LET scaleFactor == Factor(s, o, 6, ScaleMin, ScaleMax)
       IN IF cfg.uniform
          THEN <<tr[o].scale[1] * scaleFactor, tr[o].scale[2] * scaleFactor,
                 tr[o].scale[3] * scaleFactor>>
          ELSE <<tr[o].scale[1] * Factor(s, o, 7, ScaleMin, ScaleMax),
                 tr[o].scale[2] * Factor(s, o, 8, ScaleMin, ScaleMax),
                 tr[o].scale[3] * Factor(s, o, 9, ScaleMin, ScaleMax)>>
  ELSE obj.scale

PanelIntensity(o, obj, cfg, li, s) ==
  IF isLight(o) /\ cfg.lighting /\ o \in DOMAIN li
  THEN li[o].intensity * Factor(s, o, 10, IntensityMin, IntensityMax)
  ELSE obj.intensity

PanelColor(o, obj, cfg, li, s) ==
  IF isLight(o) /\ cfg.lighting /\ o \in DOMAIN li /\ cfg.colorVariation > 0
  THEN [c \in 1..3 |->
          clamp(li[o].color[c] + Jitter(s, o, 10 + c, cfg.colorVariation),
                0, ColorOne)]
  ELSE obj.color

PanelRandomizeScene(sc, cfg, tr, li, s) ==
  IF ~cfg.enabled THEN sc
  ELSE [o \in Objects |->
          IF isCamera(o) THEN sc[o]
          ELSE [position |-> PanelPosition(o, sc[o], cfg, tr, s),
                rotation |-> PanelRotation(o, sc[o], cfg, tr, s),
                scale |-> PanelScale(o, sc[o], cfg, tr, s),
                intensity |-> PanelIntensity(o, sc[o], cfg, li, s),
                color |-> PanelColor(o, sc[o], cfg, li, s)]]

\* -------------------------------------- part_001 handleRandomizeScene
\* restoreOriginalScene() first, then every quantity is perturbed from the
\* object's current value.
OldPosition(o, obj, cfg, s) ==
  IF ~isLight(o) /\ cfg.position
  THEN <<obj.position[1] + Jitter(s, o, 0, PositionRange[1]),
         obj.position[2]
           + Max(0, obj.position[2] + Jitter(s, o, 1, PositionRange[2])),
         obj.position[3] + Jitter(s, o, 2, PositionRange[3])>>
  ELSE obj.position

OldRotation(o, obj, cfg, s) ==
  IF (~isLight(o) \/ isDirectionalLight(o)) /\ cfg.rotation
  THEN <<obj.rotation[1] + Jitter(s, o, 3, RotationRange[1]),
         obj.rotation[2] + Jitter(s, o, 4, RotationRange[2]),
         obj.rotation[3] + Jitter(s, o, 5, RotationRange[3])>>
  ELSE obj.rotation

OldScale(o, obj, cfg, s) ==
  IF ~isLight(o) /\ cfg.scale
  THEN LET scaleFactor == Factor(s, o, 6, ScaleMin, ScaleMax)
       IN IF cfg.uniform
          THEN <<obj.scale[1] * scaleFactor, obj.scale[2] * scaleFactor,
                 obj.scale[3] * scaleFactor>>
          ELSE <<obj.scale[1] * Factor(s, o, 7, ScaleMin, ScaleMax),
                 obj.scale[2] * Factor(s, o, 8, ScaleMin, ScaleMax),
                 obj.scale[3] * Factor(s, o, 9, ScaleMin, ScaleMax)>>
  ELSE obj.scale

OldIntensity(o, obj, cfg, s) ==
  IF isLight(o) /\ cfg.lighting
  THEN obj.intensity * Factor(s, o, 10, IntensityMin, IntensityMax)
  ELSE obj.intensity

OldColor(o, obj, cfg, s) ==
  IF isLight(o) /\ cfg.lighting /\ cfg.colorVariation > 0
  THEN [c \in 1..3 |->
          clamp(obj.color[c] + Jitter(s, o, 10 + c, cfg.colorVariation),
                0, ColorOne)]
  ELSE obj.color

OldRandomizeScene(sc, cfg, tr, li, s) ==
  IF ~cfg.enabled THEN sc
  ELSE LET r == restoreOriginalScene(sc, tr, li)
       IN [o \in Objects |->
             IF isCamera(o) THEN r[o]
             ELSE [position |-> OldPosition(o, r[o], cfg, s),
                   rotation |-> OldRotation(o, r[o], cfg, s),
                   scale |-> OldScale(o, r[o], cfg, s),
                   intensity |-> OldIntensity(o, r[o], cfg, s),
                   color |-> OldColor(o, r[o], cfg, s)]]

\* ------------------------------- handleGenerate (Generate): one sample
\* objectsToRandomize are the annotated objects, lightsToRandomize every
\* object tagged isLight; both maps are keyed by exactly those objects.
GenTransform(o, obj, cfg, tr, s) ==
  IF o \in DOMAIN tr
  THEN [obj EXCEPT
          !.position =
             IF cfg.position
             THEN <<tr[o].position[1] + Jitter(s, o, 0, PositionRange[1]),
                    tr[o].position[2] + Jitter(s, o, 1, PositionRange[2]),
                    tr[o].position[3] + Jitter(s, o, 2, PositionRange[3])>>
             ELSE @,
          !.rotation =
             IF cfg.rotation
             THEN <<tr[o].rotation[1] + Jitter(s, o, 3, RotationRange[1]),
                    tr[o].rotation[2] + Jitter(s, o, 4, RotationRange[2]),
                    tr[o].rotation[3] + Jitter(s, o, 5, RotationRange[3])>>
             ELSE @,
          !.scale =
             IF cfg.scale
             THEN LET scaleFactor == Factor(s, o, 6, ScaleMin, ScaleMax)
                  IN IF cfg.uniform
                     THEN <<tr[o].scale[1] * scaleFactor,
                            tr[o].scale[2] * scaleFactor,
                            tr[o].scale[3] * scaleFactor>>
                     ELSE <<tr[o].scale[1] * Factor(s, o, 7, ScaleMin, ScaleMax),
                            tr[o].scale[2] * Factor(s, o, 8, ScaleMin, ScaleMax),
                            tr[o].scale[3] * Factor(s, o, 9, ScaleMin, ScaleMax)>>
             ELSE @]
  ELSE obj

GenLight(o, obj, cfg, li, s) ==
  IF cfg.lighting /\ o \in DOMAIN li
  THEN [obj EXCEPT
          !.intensity =
             li[o].intensity * Factor(s, o, 10, IntensityMin, IntensityMax),
          !.color =
             IF cfg.colorVariation > 0
             THEN [c \in 1..3 |->
                     li[o].color[c] + Jitter(s, o, 10 + c, cfg.colorVariation)]
             ELSE @]
  ELSE obj

GenRandomizeScene(sc, cfg, tr, li, s) ==
  IF ~cfg.enabled THEN sc
  ELSE [o \in Objects |->
          GenLight(o, GenTransform(o, sc[o], cfg, tr, s), cfg, li, s)]

\* handleGenerate 1634-1649: the restore at the end of the try block.
GenRestoreScene(sc, tr, li) ==
  [o \in Objects |->
     LET a == IF o \in DOMAIN tr
              THEN [sc[o] EXCEPT !.position = tr[o].position,
                                 !.rotation = tr[o].rotation,
                                 !.scale = tr[o].scale]
              ELSE sc[o]
     IN IF o \in DOMAIN li
        THEN [a EXCEPT !.intensity = li[o].intensity, !.color = li[o].color]
        ELSE a]

\* ------------------------------------ generators.ts createRandomizedScene
\* A fresh scene of clones: annotated objects that are neither light nor
\* camera, and every light.  The master `enabled' flag is not consulted.
CloneMembers(annotated) ==
  {o \in Objects : (~isLight(o) /\ ~isCamera(o) /\ o \in annotated)
                   \/ isLight(o)}

CloneObject(o, obj, cfg, s) ==
  IF ~isLight(o)
  THEN [obj EXCEPT
          !.position =
             IF cfg.position
             THEN <<@[1] + Jitter(s, o, 0, PositionRange[1]),
                    Max(0, @[2] + Jitter(s, o, 1, PositionRange[2])),
                    @[3] + Jitter(s, o, 2, PositionRange[3])>>
             ELSE @,
          !.rotation =
             IF cfg.rotation
             THEN <<@[1] + Jitter(s, o, 3, RotationRange[1]),
                    @[2] + Jitter(s, o, 4, RotationRange[2]),
                    @[3] + Jitter(s, o, 5, RotationRange[3])>>
             ELSE @,
          !.scale =
             IF cfg.scale
             THEN LET scaleFactor == Factor(s, o, 6, ScaleMin, ScaleMax)
                  IN IF cfg.uniform
                     THEN <<@[1] * scaleFactor, @[2] * scaleFactor,
                            @[3] * scaleFactor>>
                     ELSE <<@[1] * Factor(s, o, 7, ScaleMin, ScaleMax),
                            @[2] * Factor(s, o, 8, ScaleMin, ScaleMax),
                            @[3] * Factor(s, o, 9, ScaleMin, ScaleMax)>>
             ELSE @]
  ELSE IF cfg.lighting
  THEN [obj EXCEPT
          !.intensity =
             obj.intensity * Factor(s, o, 10, IntensityMin, IntensityMax),
          !.color =
             IF cfg.colorVariation > 0
             THEN [c \in 1..3 |->
                     clamp(obj.color[c]
                             + Jitter(s, o, 10 + c, cfg.colorVariation),
                           0, ColorOne)]
             ELSE @]
  ELSE obj

createRandomizedScene(sc, annotated, cfg, s) ==
  [o \in CloneMembers(annotated) |-> CloneObject(o, sc[o], cfg, s)]

\* A pass that writes the perturbed values to obj instead of obj.clone().
ObjectsAfterCloneInPlace(sc, annotated, cfg, s) ==
  [o \in Objects |->
     IF o \in CloneMembers(annotated) THEN CloneObject(o, sc[o], cfg, s)
     ELSE sc[o]]

\* The objects handed to createRandomizedScene, after it returned: every
\* write goes to the result of obj.clone(), which shares no pose, intensity
\* or color with obj, and scene.add() is called on the clones only.
ObjectsAfterClone(sc, annotated, cfg, s) == sc

\* ================================================================ state
VARIABLES
  variant,              \* which component is mounted
  scene,                \* live pose and light fields of the editor objects
  objectAnnotations,    \* uuids that have an entry in the annotation store
  randomizationSettings,\* current randomization config
  samples,              \* generation.samples
  cameraCount,          \* camera.positions.length
  rendererReady,        \* window.__THREE_SCENE__ / __THREE_RENDERER__ / canvas
  isGenerating, progress, previewImage, generatedImages,
  originalTransforms, originalLights,   \* Panel state set by the effect
  sweeps,               \* invocations of the async sweep that are in flight
  requests,             \* number of generate requests handled so far
  ended,                \* what the sweep that ended in the last step did
  lastOp                \* the handler that ran in the last step

\* The annotation export pipeline: annotation classes, the per-image
\* annotation lists handed to the exporters, the 2D box of one object, and
\* the archive of a download.
VARIABLES
  flow,                 \* "Panel": captured and exported inside one sweep;
                        \* "Download": captured by generators.ts, exported later
  annotationClasses,    \* annotationStore.annotationClasses: [id, name] list
  sweepClasses,         \* the annotationClasses the running sweep's closure holds
  objectClassIds,       \* classId of the k-th annotated object of the scene
  resolution,           \* cameraSettings.resolution: <<width, height>>
  data,                 \* the `annotations' array of generateSyntheticData
  exported,             \* what the exportAnnotations call of the last step made
  annotator,            \* which generateAnnotations implementation is used
  projected,            \* size of the image and screen extents of its objects
  emitted,              \* objects visited and annotations pushed so far
  zipVersion,           \* which createSyntheticDataZip is called
  zipImages,            \* its images argument
  annotationsJson,      \* its annotationsJson argument
  archive,              \* the JSZip object it fills and the blob it returns
  store,                \* useAnnotationStore: annotationClasses, objectAnnotations
  storeOp               \* the store call of the last step, with the state before it

\* The mount effect of the panel (SyntheticDataPanel.tsx 178-209).
VARIABLES
  effect                \* how often its body has run, and the baseline maps
                        \* the restoreOriginalScene of its cleanup closes over

sweepVars == <<variant, scene, objectAnnotations, randomizationSettings, samples,
               cameraCount, rendererReady, isGenerating, progress, previewImage,
               generatedImages, originalTransforms, originalLights, sweeps,
               requests, ended, lastOp>>

exportVars == <<flow, annotationClasses, sweepClasses, objectClassIds,
                resolution, data, exported>>

boxVars == <<annotator, projected, emitted>>

zipVars == <<zipVersion, zipImages, annotationsJson, archive>>

storeVars == <<store, storeOp>>

effectVars == <<effect>>

pipelineVars == <<exportVars, boxVars, zipVars, storeVars>>

vars == <<sweepVars, effectVars, pipelineVars>>

NoExport == [format |-> "none"]
NoArchive == [pc |-> "none"]

\* Nothing has been captured for export.
ExportIdle ==
  /\ flow = "none"
  /\ annotationClasses = <<>>
  /\ sweepClasses = <<>>
  /\ objectClassIds = <<>>
  /\ resolution = <<0, 0>>
  /\ data = <<>>
  /\ exported = NoExport

\* No object has been projected.
NoProjection == [width |-> 0, height |-> 0, extents |-> <<>>]
NoBoxes == [visited |-> 0, annotations |-> <<>>]

BoxIdle ==
  /\ annotator = "none"
  /\ projected = NoProjection
  /\ emitted = NoBoxes

EmptyStore == [annotationClasses |-> <<>>, objectAnnotations |-> {}, uuids |-> 0]
NoStoreOp == [name |-> "none"]

\* The annotation store is not looked at.
StoreIdle ==
  /\ store = EmptyStore
  /\ storeOp = NoStoreOp

\* No download has been asked for.
ZipIdle ==
  /\ zipVersion = 0
  /\ zipImages = <<>>
  /\ annotationsJson = NoExport
  /\ archive = NoArchive

Variants == {"Panel", "PanelOld", "Generate", "Settings"}
IsPanel(v) == v \in {"Panel", "PanelOld"}

\* Objects the annotation panel is used on.
Annotatable == {"mesh1"}

NoMap == [o \in {} |-> 0]

\* The effect before the panel is mounted, and after its first run: the
\* cleanup it returned holds the restoreOriginalScene of the first render,
\* whose originalTransforms and originalLights are the empty Maps of useState.
NotMounted == [runs |-> 0, tr |-> NoMap, li |-> NoMap]
Mounted == [runs |-> 1, tr |-> NoMap, li |-> NoMap]
NoEnd == [outcome |-> "none"]
Other == [name |-> "other"]

\* progress is held as the fraction num/den of 100
Percent(num, den) == [num |-> num, den |-> den]

\* canvas.toDataURL('image/png') of a render through camera cam
DataUrl(cam) == <<"data:image/png;base64,", cam>>
EmptyDataUrl == <<"data:,">>

\* previewImage before any preview: useState<string | null>(null).
null == <<>>

\* An id that leaves the camera index out.
ImageIdNoCamera(i, j) == <<"sample_", i, "_camera_", 0>>

\* `sample_${i}_camera_${j}`
ImageId(i, j) == <<"sample_", i, "_camera_", j>>

Init ==
  /\ variant \in Variants
  /\ scene = InitialScene
  /\ objectAnnotations \in SUBSET Annotatable
  /\ randomizationSettings \in RandomizationSettings
  /\ samples \in 0..MaxSamples
  /\ cameraCount \in 0..MaxCameras
  /\ rendererReady \in BOOLEAN
  /\ (variant = "Settings" => rendererReady)
  /\ isGenerating = FALSE
  /\ progress = Percent(0, 1)
  /\ previewImage = null
  /\ generatedImages = <<>>
  \* the mount effect of the panel has run (SyntheticDataPanel.tsx 179-204)
  /\ originalTransforms = IF IsPanel(variant)
                          THEN CaptureTransforms(InitialScene, Objects)
                          ELSE NoMap
  /\ originalLights = IF IsPanel(variant)
                      THEN CaptureLights(InitialScene, Objects)
                      ELSE NoMap
  /\ sweeps = <<>>
  /\ requests = 0
  /\ ended = NoEnd
  /\ lastOp = Other
  /\ effect = IF IsPanel(variant) THEN Mounted ELSE NotMounted
  /\ ExportIdle
  /\ BoxIdle
  /\ ZipIdle
  /\ StoreIdle

\* The JavaScript thread is free: no sweep is between two of its yields.
Busy == \E k \in 1..Len(sweeps) : sweeps[k].pc = "loop"
UIFree == ~Busy

Remove(seq, k) == [n \in 1..(Len(seq) - 1) |-> IF n < k THEN seq[n] ELSE seq[n + 1]]

NewSweep(cfg, tr, li) ==
  [i |-> 0, j |-> 0, pc |-> "loop", randomized |-> FALSE,
   cfg |-> cfg, S |-> samples, C |-> cameraCount,
   annotated |-> objectAnnotations, tr |-> tr, li |-> li,
   images |-> <<>>, clone |-> NoMap,
   \* bookkeeping of what the invocation did
   passes |-> 0, restores |-> 0, progressLog |-> <<>>, previews |-> 0,
   visited |-> {}, failed |-> {}, preScene |-> scene,
   sampleScene |-> NoMap, sameScene |-> TRUE]

EndRecord(sw, outcome, restores, images) ==
  [outcome |-> outcome, restores |-> restores, images |-> images,
   passes |-> sw.passes, progressLog |-> sw.progressLog,
   previews |-> sw.previews, visited |-> sw.visited, failed |-> sw.failed,
   preScene |-> sw.preScene, S |-> sw.S, C |-> sw.C]

\* The record of a randomize pass: its settings and the baseline it used.
Pass(cfg, tr, li) == [name |-> "randomize", cfg |-> cfg, tr |-> tr, li |-> li]

\* ============================================================= handlers
\* The randomize pass of the mounted panel.
handleRandomizeScene(sc, cfg, tr, li, s) ==
  IF variant = "PanelOld" THEN OldRandomizeScene(sc, cfg, tr, li, s)
  ELSE PanelRandomizeScene(sc, cfg, tr, li, s)

\* capturePreviewImage: needs the canvas, the renderer, the scene, the camera.
capturePreviewImage ==
  IF rendererReady THEN DataUrl("viewport") ELSE previewImage

\* "Randomize Scene" button.  Panel: disabled while the master flag is off
\* (1065-1077); part_001: rendered only while not generating (1109-1128).
RandomizeScene ==
  /\ IsPanel(variant) /\ UIFree
  /\ IF variant = "Panel" THEN randomizationSettings.enabled ELSE ~isGenerating
  /\ \E s \in Streams :
       scene' = handleRandomizeScene(scene, randomizationSettings,
                                     originalTransforms, originalLights, s)
  /\ previewImage' = IF randomizationSettings.enabled
                     THEN capturePreviewImage ELSE previewImage
  /\ lastOp' = IF randomizationSettings.enabled
               THEN Pass(randomizationSettings, originalTransforms,
                         originalLights)
               ELSE Other
  /\ ended' = NoEnd
  /\ UNCHANGED <<variant, objectAnnotations, randomizationSettings, samples,
                 cameraCount, rendererReady, isGenerating, progress,
                 generatedImages, originalTransforms, originalLights, sweeps,
                 requests>>
  /\ UNCHANGED <<effectVars, pipelineVars>>

\* "Restore Original Scene" button (Panel 1079-1085).
RestoreOriginalScene ==
  /\ variant = "Panel" /\ UIFree
  /\ scene' = restoreOriginalScene(scene, originalTransforms, originalLights)
  /\ lastOp' = [name |-> "restoreOriginalScene"]
  /\ ended' = NoEnd
  /\ UNCHANGED <<variant, objectAnnotations, randomizationSettings, samples,
                 cameraCount, rendererReady, isGenerating, progress,
                 previewImage, generatedImages, originalTransforms,
                 originalLights, sweeps, requests>>
  /\ UNCHANGED <<effectVars, pipelineVars>>

\* setRandomizationSettings / updateRandomization
updateRandomization ==
  /\ UIFree
  /\ \E cfg \in RandomizationSettings \ {randomizationSettings} :
       randomizationSettings' = cfg
  /\ lastOp' = Other
  /\ ended' = NoEnd
  /\ UNCHANGED <<variant, scene, objectAnnotations, samples, cameraCount,
                 rendererReady, isGenerating, progress, previewImage,
                 generatedImages, originalTransforms, originalLights, sweeps,
                 requests>>
  /\ UNCHANGED <<effectVars, pipelineVars>>

\* annotation store
setObjectAnnotation ==
  /\ UIFree
  /\ \E o \in Annotatable \ objectAnnotations :
       objectAnnotations' = objectAnnotations \cup {o}
  /\ lastOp' = Other
  /\ ended' = NoEnd
  /\ UNCHANGED <<variant, scene, randomizationSettings, samples, cameraCount,
                 rendererReady, isGenerating, progress, previewImage,
                 generatedImages, originalTransforms, originalLights, sweeps,
                 requests>>
  /\ UNCHANGED <<effectVars, pipelineVars>>

removeObjectAnnotation ==
  /\ UIFree
  /\ \E o \in objectAnnotations :
       objectAnnotations' = objectAnnotations \ {o}
  /\ lastOp' = Other
  /\ ended' = NoEnd
  /\ UNCHANGED <<variant, scene, randomizationSettings, samples, cameraCount,
                 rendererReady, isGenerating, progress, previewImage,
                 generatedImages, originalTransforms, originalLights, sweeps,
                 requests>>
  /\ UNCHANGED <<effectVars, pipelineVars>>

\* ------------------------------------------------ starting a sweep
annotatedObjectsCount == Cardinality(objectAnnotations)

\* disabled attribute of the panel's Generate button (1370)
GenerateDisabled == isGenerating \/ annotatedObjectsCount = 0

\* Panel / part_001 generateSyntheticData, up to the start of the loop.
generateSyntheticData ==
  /\ IsPanel(variant) /\ UIFree /\ requests < MaxRequests
  /\ ~GenerateDisabled
  /\ requests' = requests + 1
  /\ lastOp' = [name |-> "generate"]
  /\ ended' = NoEnd
  /\ IF annotatedObjectsCount = 0
     THEN UNCHANGED <<isGenerating, progress, sweeps>>
     ELSE /\ isGenerating' = TRUE
          /\ progress' = Percent(0, 1)
          /\ sweeps' = Append(sweeps, NewSweep(randomizationSettings,
                                               originalTransforms,
                                               originalLights))
  /\ UNCHANGED <<variant, scene, objectAnnotations, randomizationSettings,
                 samples, cameraCount, rendererReady, previewImage,
                 generatedImages, originalTransforms, originalLights>>
  /\ UNCHANGED <<effectVars, pipelineVars>>

\* A handler without the guard.
HandleGenerateGuardNever == FALSE

\* `if (isGenerating) return;' of both handleGenerate functions
HandleGenerateGuard == isGenerating

annotatedObjects == {o \in Objects : o \in objectAnnotations}

\* handleGenerate of the second panel (1424-1509) and of
\* SyntheticDataSettings (27-54), up to the start of the loop.
handleGenerate ==
  /\ ~IsPanel(variant) /\ UIFree /\ requests < MaxRequests
  /\ requests' = requests + 1
  /\ lastOp' = [name |-> "generate"]
  /\ IF HandleGenerateGuard
     THEN /\ ended' = NoEnd
          /\ UNCHANGED <<isGenerating, progress, previewImage, generatedImages,
                         sweeps>>
     ELSE /\ progress' = Percent(0, 1)
          /\ previewImage' = null
          /\ generatedImages' = <<>>
          /\ IF annotatedObjects = {}
             THEN /\ isGenerating' = FALSE
                  /\ ended' = EndRecord(NewSweep(randomizationSettings, NoMap, NoMap),
                                        "precondition", 0, <<>>)
                  /\ UNCHANGED sweeps
             ELSE IF variant = "Generate" /\ ~rendererReady
             THEN /\ isGenerating' = FALSE
                  /\ ended' = EndRecord(NewSweep(randomizationSettings, NoMap, NoMap),
                                        "norenderer", 0, <<>>)
                  /\ UNCHANGED sweeps
             ELSE /\ isGenerating' = TRUE
                  /\ sweeps' =
                       Append(sweeps,
                              IF variant = "Generate"
                              THEN NewSweep(randomizationSettings,
                                            CaptureTransforms(scene, annotatedObjects),
                                            CaptureLights(scene, Objects))
                              ELSE NewSweep(randomizationSettings, NoMap, NoMap))
                  /\ ended' = NoEnd
  /\ UNCHANGED <<variant, scene, objectAnnotations, randomizationSettings,
                 samples, cameraCount, rendererReady, originalTransforms,
                 originalLights>>
  /\ UNCHANGED <<effectVars, pipelineVars>>

\* ------------------------------------------------ the sweep loop
\* A sweep whose setTimeout(0) never fires.
RunnableUntilYield(k) ==
  /\ k \in 1..Len(sweeps)
  /\ sweeps[k].pc = "loop"

\* Sweep k continues: it is running, or its setTimeout(0) fires while the
\* thread is free.
Runnable(k) ==
  /\ k \in 1..Len(sweeps)
  /\ sweeps[k].pc = "loop" \/ (sweeps[k].pc = "yield" /\ UIFree)

\* What render + toDataURL can give: an image, the empty data URL, an
\* exception.  Only generators.ts tells the empty data URL apart.
RenderOutcomes ==
  IF variant = "Settings" THEN {"ok", "empty", "throw"} ELSE {"ok", "throw"}

\* Top of the sample loop: the randomize pass of sample i.
\*   Panel / part_001: handleRandomizeScene() of the click-time render
\*   Generate: 1513-1584;  Settings: createRandomizedScene (generators 87-91)
SweepRandomize(k) ==
  /\ Runnable(k)
  /\ LET sw == sweeps[k] IN
     /\ sw.i < sw.S /\ sw.j = 0 /\ ~sw.randomized
     /\ \E s \in Streams :
          /\ scene' =
               IF IsPanel(variant)
               THEN handleRandomizeScene(scene, sw.cfg, sw.tr, sw.li, s)
               ELSE IF variant = "Generate"
               THEN GenRandomizeScene(scene, sw.cfg, sw.tr, sw.li, s)
               ELSE ObjectsAfterClone(scene, sw.annotated, sw.cfg, s)
          /\ sweeps' =
               [sweeps EXCEPT ![k] =
                  [sw EXCEPT !.randomized = TRUE, !.pc = "loop",
                             !.passes = IF variant = "Settings" \/ sw.cfg.enabled
                                        THEN @ + 1 ELSE @,
                             !.clone = IF variant = "Settings"
                                       THEN createRandomizedScene(
                                              scene, sw.annotated, sw.cfg, s)
                                       ELSE @]]
     /\ previewImage' = IF IsPanel(variant) /\ sw.cfg.enabled
                        THEN capturePreviewImage ELSE previewImage
     /\ lastOp' = IF variant # "Settings" /\ sw.cfg.enabled
                  THEN Pass(sw.cfg, sw.tr, sw.li) ELSE Other
  /\ ended' = NoEnd
  /\ UNCHANGED <<variant, objectAnnotations, randomizationSettings, samples,
                 cameraCount, rendererReady, isGenerating, progress,
                 generatedImages, originalTransforms, originalLights,
                 requests>>
  /\ UNCHANGED <<effectVars, pipelineVars>>

\* The scene the renderer is given for a capture.
RenderedScene(sw) == IF variant = "Settings" THEN sw.clone ELSE scene

\* A progress value that counts the cameras of the current sample only.
ProgressValueOfSample(sw) == Percent(sw.j + 1, sw.S * sw.C)

\* The value handed to setProgress / onProgress after capture (i, j).
ProgressValue(sw) ==
  IF variant = "Generate"
  THEN Percent(Len(sw.images) + 1, sw.S * sw.C)
  ELSE Percent(sw.i * sw.C + sw.j + 1, sw.S * sw.C)

\* No test of the data URL: every render that returns gets a record.
KeepsEmpty(outcome) == outcome \in {"ok", "empty"}

\* Does the pair whose capture gave `outcome' get an image record?
Keeps(outcome) ==
  IF variant = "Settings" THEN outcome = "ok" ELSE outcome \in {"ok", "empty"}

\* What the catch / finally blocks do to the scene when the loop throws.
SceneOnError(sw) ==
  IF IsPanel(variant) THEN restoreOriginalScene(scene, sw.tr, sw.li) ELSE scene

RestoresOnError == IF IsPanel(variant) THEN 1 ELSE 0

\* The capture of pair (i, j) is given up without an image and without a yield.
Skip(sw) ==
  [sw EXCEPT !.j = @ + 1, !.pc = "loop",
             !.visited = @ \cup {<<sw.i, sw.j>>},
             !.failed = @ \cup {<<sw.i, sw.j>>}]

\* The capture of pair (i, j) gave the data URL url: push, report, yield.
Push(sw, url) ==
  [sw EXCEPT !.images = Append(@, [id |-> ImageId(sw.i, sw.j), dataUrl |-> url]),
             !.progressLog = Append(@, ProgressValue(sw)),
             !.previews = IF sw.i = 0 /\ sw.j = 0 THEN @ + 1 ELSE @,
             !.visited = @ \cup {<<sw.i, sw.j>>},
             !.failed = IF url = EmptyDataUrl THEN @ \cup {<<sw.i, sw.j>>} ELSE @,
             !.sampleScene = IF @ = NoMap THEN RenderedScene(sw) ELSE @,
             !.sameScene = @ /\ (sw.sampleScene = NoMap
                                 \/ sw.sampleScene = RenderedScene(sw)),
             !.j = @ + 1, !.pc = "yield"]

\* One camera pose of the inner loop, up to the yield (or to the exit of
\* the handler when the render throws).
SweepCapture(k) ==
  /\ Runnable(k)
  /\ LET sw == sweeps[k] IN
     /\ sw.i < sw.S /\ sw.j < sw.C /\ (sw.j > 0 \/ sw.randomized)
     /\ IF IsPanel(variant) /\ ~rendererReady
        THEN \* if (mainRenderer && mainScene) is false: nothing, no yield
             /\ sweeps' = [sweeps EXCEPT ![k] = Skip(sw)]
             /\ ended' = NoEnd
             /\ lastOp' = Other
             /\ UNCHANGED <<scene, isGenerating, progress, previewImage>>
        ELSE \E outcome \in RenderOutcomes :
             IF outcome = "throw"
             THEN /\ scene' = SceneOnError(sw)
                  /\ isGenerating' = FALSE
                  /\ progress' = IF IsPanel(variant) THEN Percent(1, 1) ELSE progress
                  /\ sweeps' = Remove(sweeps, k)
                  /\ ended' = EndRecord(sw, "error",
                                        sw.restores + RestoresOnError, <<>>)
                  /\ lastOp' = [name |-> "sweepEnd"]
                  /\ UNCHANGED previewImage
             ELSE IF Keeps(outcome)
             THEN LET url == IF outcome = "ok" THEN DataUrl(sw.j)
                             ELSE EmptyDataUrl
                  IN /\ sweeps' = [sweeps EXCEPT ![k] = Push(sw, url)]
                     /\ progress' = ProgressValue(sw)
                     /\ previewImage' = IF sw.i = 0 /\ sw.j = 0
                                        THEN url ELSE previewImage
                     /\ ended' = NoEnd
                     /\ lastOp' = Other
                     /\ UNCHANGED <<scene, isGenerating>>
             ELSE \* generators.ts 118-121: log and continue
                  /\ sweeps' = [sweeps EXCEPT ![k] = Skip(sw)]
                  /\ ended' = NoEnd
                  /\ lastOp' = Other
                  /\ UNCHANGED <<scene, isGenerating, progress, previewImage>>
  /\ UNCHANGED <<variant, objectAnnotations, randomizationSettings, samples,
                 cameraCount, rendererReady, generatedImages,
                 originalTransforms, originalLights, requests>>
  /\ UNCHANGED <<effectVars, pipelineVars>>

\* The inner loop is exhausted: next sample.
SweepNextSample(k) ==
  /\ Runnable(k)
  /\ LET sw == sweeps[k] IN
     /\ sw.i < sw.S /\ sw.j >= sw.C /\ (sw.j > 0 \/ sw.randomized)
     /\ sweeps' = [sweeps EXCEPT ![k] =
          [sw EXCEPT !.i = @ + 1, !.j = 0, !.randomized = FALSE,
                     !.sampleScene = NoMap, !.pc = "loop"]]
  /\ lastOp' = Other
  /\ ended' = NoEnd
  /\ UNCHANGED <<variant, scene, objectAnnotations, randomizationSettings,
                 samples, cameraCount, rendererReady, isGenerating, progress,
                 previewImage, generatedImages, originalTransforms,
                 originalLights, requests>>
  /\ UNCHANGED <<effectVars, pipelineVars>>

\* What the code after the loop does to the scene.
\*   Panel: restoreOriginalScene() in the try block and again in finally
\*   Generate: the restore loops 1634-1649;  Settings: nothing
SceneOnSuccess(sw) ==
  IF IsPanel(variant)
  THEN restoreOriginalScene(restoreOriginalScene(scene, sw.tr, sw.li),
                            sw.tr, sw.li)
  ELSE IF variant = "Generate" THEN GenRestoreScene(scene, sw.tr, sw.li)
  ELSE scene

RestoresOnSuccess ==
  IF IsPanel(variant) THEN 2 ELSE IF variant = "Generate" THEN 1 ELSE 0

\* The sample loop is exhausted: the rest of the handler.
SweepFinish(k) ==
  /\ Runnable(k)
  /\ LET sw == sweeps[k] IN
     /\ sw.i >= sw.S
     /\ scene' = SceneOnSuccess(sw)
     /\ isGenerating' = FALSE
     /\ progress' = IF IsPanel(variant) THEN Percent(1, 1) ELSE progress
     /\ generatedImages' = IF IsPanel(variant) THEN generatedImages ELSE sw.images
     /\ sweeps' = Remove(sweeps, k)
     /\ ended' = EndRecord(sw, "ok", sw.restores + RestoresOnSuccess, sw.images)
  /\ lastOp' = [name |-> "sweepEnd"]
  /\ UNCHANGED <<variant, objectAnnotations, randomizationSettings, samples,
                 cameraCount, rendererReady, previewImage, originalTransforms,
                 originalLights, requests>>
  /\ UNCHANGED <<effectVars, pipelineVars>>

Next ==
  \/ RandomizeScene
  \/ RestoreOriginalScene
  \/ updateRandomization
  \/ setObjectAnnotation
  \/ removeObjectAnnotation
  \/ generateSyntheticData
  \/ handleGenerate
  \/ \E k \in 1..Len(sweeps) : SweepRandomize(k)
  \/ \E k \in 1..Len(sweeps) : SweepCapture(k)
  \/ \E k \in 1..Len(sweeps) : SweepNextSample(k)
  \/ \E k \in 1..Len(sweeps) : SweepFinish(k)

Spec == Init /\ [][Next]_vars

\* ============================================================ properties
Abs(n) == IF n < 0 THEN -n ELSE n

\* The non-light, non-camera objects a pass perturbs: those it has a
\* baseline entry for.
PassObjects(p) == {o \in DOMAIN p.tr : ~isLight(o) /\ ~isCamera(o)}

\* C1: after each randomize pass, every enabled component of every
\* randomized object is its baseline value combined with one draw of that
\* pass: position = baseline + an offset within +/-range per axis,
\* scale = baseline x a factor in [min,max], light intensity = baseline
\* intensity x a factor in [min,max].
C1_SingleDrawFromBaseline ==
  lastOp.name = "randomize" =>
    /\ \A o \in PassObjects(lastOp) :
         /\ lastOp.cfg.position =>
              \A a \in 1..3 :
                Abs(scene[o].position[a] - lastOp.tr[o].position[a])
                  <= PositionRange[a]
         /\ lastOp.cfg.scale =>
              \A a \in 1..3 :
                \E f \in ScaleMin..ScaleMax :
                  scene[o].scale[a] = lastOp.tr[o].scale[a] * f
    /\ \A l \in DOMAIN lastOp.li :
         lastOp.cfg.lighting =>
           \E f \in IntensityMin..IntensityMax :
             scene[l].intensity = lastOp.li[l].intensity * f

\* The part of C1 that is about accumulation only, outside part_001.
C1_HoldsOutsidePart001 == variant # "PanelOld" => C1_SingleDrawFromBaseline

\* C2: restoreOriginalScene puts every object that has a baseline entry
\* back to its captured position, rotation and scale and every light back
\* to its captured intensity and color, and a second restore right after
\* changes nothing.
C2_RestoreExactAndIdempotent ==
  lastOp.name = "restoreOriginalScene" =>
    /\ \A o \in DOMAIN originalTransforms :
         /\ scene[o].position = originalTransforms[o].position
         /\ scene[o].rotation = originalTransforms[o].rotation
         /\ scene[o].scale = originalTransforms[o].scale
    /\ \A l \in DOMAIN originalLights :
         /\ scene[l].intensity = originalLights[l].intensity
         /\ scene[l].color = originalLights[l].color
    /\ restoreOriginalScene(scene, originalTransforms, originalLights) = scene

\* A restore that came after a preview randomization.
C2_Witness ==
  /\ lastOp.name = "restoreOriginalScene"
  /\ previewImage = DataUrl("viewport")
  /\ DOMAIN originalTransforms = Objects

\* C3: every in-place sweep that got past its precondition checks has run
\* the baseline restore exactly once when it ends, on success and on error.
C3_RestoreExactlyOnce ==
  (variant # "Settings" /\ ended.outcome \in {"ok", "error"}) =>
    ended.restores = 1

\* C4: when a sweep ends on an error thrown after at least one randomize
\* pass, every object is back at its values from before the sweep.
C4_SceneRestoredOnError ==
  (ended.outcome = "error" /\ ended.passes >= 1) => scene = ended.preScene

\* C5: a start that fails on "no annotated objects" changes neither the
\* scene, nor the images of an earlier sweep, nor any sweep.
C5_FailedStartChangesNothing ==
  [][ended'.outcome = "precondition" =>
       /\ scene' = scene
       /\ generatedImages' = generatedImages
       /\ sweeps' = sweeps]_vars

\* Ids of the images of a list, in order.
Ids(images) == [n \in 1..Len(images) |-> images[n].id]

\* The (sample, camera) pairs of an S x C sweep in loop order.
PairSeq(S, C) == [n \in 1..(S * C) |-> <<(n - 1) \div C, (n - 1) % C>>]

\* The ids an S x C sweep yields for the pairs of `kept`, in loop order.
IdsOf(S, C, kept) ==
  LET Kept(p) == p \in kept
      ps == SelectSeq(PairSeq(S, C), Kept)
  IN  [n \in 1..Len(ps) |-> <<"sample_", ps[n][1], "_camera_", ps[n][2]>>]

AllPairs(S, C) == (0..(S - 1)) \X (0..(C - 1))

\* C6: a sweep of S samples and C cameras in which no capture fails ends
\* with exactly S*C images, the image of sample i and camera j carrying the
\* id sample_i_camera_j, all ids distinct and ordered by i then j; an image
\* once appended to a sweep's list is never changed.
C6_ImagesCompleteOrderedImmutable ==
  /\ [](((ended.outcome = "ok") /\ (ended.failed = {})) =>
          /\ Len(ended.images) = ended.S * ended.C
          /\ Ids(ended.images) = IdsOf(ended.S, ended.C, AllPairs(ended.S, ended.C))
          /\ \A m, n \in 1..Len(ended.images) :
               m # n => ended.images[m].id # ended.images[n].id)
  /\ [][\A k \in 1..Len(sweeps) :
          (Len(sweeps') >= k /\ sweeps'[k].preScene = sweeps[k].preScene
             /\ Len(sweeps'[k].images) >= Len(sweeps[k].images)) =>
            \A n \in 1..Len(sweeps[k].images) :
              sweeps'[k].images[n] = sweeps[k].images[n]]_vars

\* A 2 x 2 sweep of the clone-based generator that ended with no failure.
C6_Witness ==
  /\ variant = "Settings"
  /\ ended.outcome = "ok"
  /\ ended.failed = {}
  /\ ended.S = 2
  /\ ended.C = 2
  /\ Len(ended.images) = 4

\* C7: all images of one sample of a sweep are rendered from the same scene
\* configuration, also when Randomize and Restore run while the sweep is
\* suspended at a yield point.
C7_OneScenePerSample == \A k \in 1..Len(sweeps) : sweeps[k].sameScene

Below(a, b) == a.num * b.den < b.num * a.den
InRange(a) == 0 < a.num /\ a.num <= a.den
IsHundred(a) == a.num = a.den
Increasing(log) == \A n \in 1..(Len(log) - 1) : Below(log[n], log[n + 1])

\* C10 as stated: one report per image, the n-th being n/total*100,
\* strictly increasing in (0,100], the last report of a normally ending
\* sweep being 100.
C10_ProgressByImagesCompleted ==
  /\ \A k \in 1..Len(sweeps) :
       /\ Len(sweeps[k].progressLog) = Len(sweeps[k].images)
       /\ \A n \in 1..Len(sweeps[k].progressLog) :
            /\ sweeps[k].progressLog[n].num * sweeps[k].S * sweeps[k].C
                 = n * sweeps[k].progressLog[n].den
            /\ InRange(sweeps[k].progressLog[n])
       /\ Increasing(sweeps[k].progressLog)
  /\ (ended.outcome = "ok" /\ ended.progressLog # <<>>) =>
       IsHundred(ended.progressLog[Len(ended.progressLog)])

\* The position in loop order of the pair the n-th image of a list is of.
PairNumber(images, n, C) == images[n].id[2] * C + images[n].id[4] + 1

\* C10: one report per image kept; the report for the image of pair (i,j)
\* is (i*C + j + 1)/(S*C)*100; the reports are strictly increasing in
\* (0,100]; a sweep that ends normally and whose last pair was captured
\* reports 100 last.
C10_ProgressByPairPosition ==
  /\ \A k \in 1..Len(sweeps) :
       /\ Len(sweeps[k].progressLog) = Len(sweeps[k].images)
       /\ \A n \in 1..Len(sweeps[k].progressLog) :
            /\ sweeps[k].progressLog[n].num * sweeps[k].S * sweeps[k].C
                 = PairNumber(sweeps[k].images, n, sweeps[k].C)
                     * sweeps[k].progressLog[n].den
            /\ InRange(sweeps[k].progressLog[n])
       /\ Increasing(sweeps[k].progressLog)
  /\ (ended.outcome = "ok" /\ ended.progressLog # <<>>
        /\ <<ended.S - 1, ended.C - 1>> \notin ended.failed) =>
       IsHundred(ended.progressLog[Len(ended.progressLog)])

\* A sweep that ended normally after a failed capture and two reports.
C10_Witness ==
  /\ ended.outcome = "ok"
  /\ ended.failed # {}
  /\ Len(ended.progressLog) >= 2

\* C11: a sweep of the callback-reporting generators that holds at least one
\* image has invoked onPreview exactly once, with its first image, and had
\* done so before a second image was appended.
C11_PreviewOnceWithFirstImage ==
  ~IsPanel(variant) =>
    /\ \A k \in 1..Len(sweeps) :
         Len(sweeps[k].images) >= 1 =>
           /\ sweeps[k].previews = 1
           /\ previewImage = sweeps[k].images[1].dataUrl
    /\ (ended.outcome = "ok" /\ ended.images # <<>>) => ended.previews = 1

\* ==================================================== annotation export
\* Box coordinates are held in units of 1/Sub pixel, so that the corners the
\* projection yields can fall between pixels.
Sub == 2

MaxClasses == 2
MaxAnnotated == 2
MaxImages == 2

ClassNames == {"car", "tree"}
Resolutions == {<<100, 100>>, <<64, 48>>}
Formats == {"COCO", "PASCAL_VOC", "YOLO"}

\* Values of new Date().toISOString() at the time of an export.
Clock == {"t1", "t2"}

\* crypto.randomUUID() of the k-th class added (AnnotationPanel handleAddClass)
ClassId(k) == <<"uuid", k>>

\* Screen extent of the corners of the k-th annotated object for camera j
\* in a scene randomized with stream s: min/max over the projected corners.
ScreenExtent(j, s, k) ==
  LET minX == Sub * (10 * k - 15 * j) + 7 * (Draw(s, k) - 1)
      minY == Sub * (20 * k + 40 * j)
  IN  [minX |-> minX, maxX |-> minX + Sub * 30 + j * Draw(s, k),
       minY |-> minY, maxY |-> minY + Sub * 40 + 3 * j]

\* annotationClasses.find(c => c.id === classId): index of the first match, 0 if none
FindClass(classes, id) ==
  IF \E n \in 1..Len(classes) : classes[n].id = id
  THEN CHOOSE n \in 1..Len(classes) :
         /\ classes[n].id = id
         /\ \A q \in 1..(n - 1) : classes[q].id # id
  ELSE 0

\* The annotated objects a traversal reaches that have a class in `classes'.
WithClass(classes) ==
  LET Has(k) == FindClass(classes, objectClassIds[k]) # 0
  IN  SelectSeq([k \in 1..Len(objectClassIds) |-> k], Has)

\* The box v1 stores: [minX, minY, maxX - minX, maxY - minY], unclipped.
PanelBox(e) == <<e.minX, e.minY, e.maxX - e.minX, e.maxY - e.minY>>

\* SyntheticDataPanel generateAnnotations (435-488) for camera j, stream s.
generateAnnotations(classes, j, s) ==
  LET objs == WithClass(classes)
  IN  [q \in 1..Len(objs) |->
         LET classInfo == classes[FindClass(classes, objectClassIds[objs[q]])]
             e == ScreenExtent(j, s, objs[q])
         IN  [category_id |-> classInfo.id,
              category_name |-> classInfo.name,
              bbox |-> PanelBox(e),
              area |-> (e.maxX - e.minX) * (e.maxY - e.minY)]]

\* `${item.imageId}.png`
PngName(imageId) == <<imageId, ".png">>

\* categories of formatAsCOCO (496-502): id index + 1, in list order
CocoCategories(classes) ==
  [n \in 1..Len(classes) |->
     [id |-> (n - 1) + 1, name |-> classes[n].name, supercategory |-> "object"]]

\* Array.prototype.findIndex on the name: 0-based, -1 when absent
findIndex(categories, name) ==
  IF \E n \in 1..Len(categories) : categories[n].name = name
  THEN (CHOOSE n \in 1..Len(categories) :
          /\ categories[n].name = name
          /\ \A q \in 1..(n - 1) : categories[q].name # name) - 1
  ELSE -1

IdStride == 1000

\* An annotation id whose image part is not spread out.
CocoAnnotationIdDense(imageIndex, annoIndex) == imageIndex + annoIndex + 1

\* id of formatAsCOCO (521)
CocoAnnotationId(imageIndex, annoIndex) == imageIndex * IdStride + annoIndex + 1

\* The annotations formatAsCOCO pushes for the item at imageIndex (517-531).
CocoAnnotationsOf(item, imageIndex, categories) ==
  [k \in 1..Len(item.annotations) |->
     [id |-> CocoAnnotationId(imageIndex, k - 1),
      image_id |-> imageIndex + 1,
      category_id |-> findIndex(categories, item.annotations[k].category_name) + 1,
      bbox |-> item.annotations[k].bbox,
      area |-> item.annotations[k].area,
      iscrowd |-> 0]]

RECURSIVE CocoAnnotations(_, _, _)
\* The annotations array after the first n items of dat.
CocoAnnotations(dat, n, categories) ==
  IF n = 0 THEN <<>>
  ELSE CocoAnnotations(dat, n - 1, categories)
         \o CocoAnnotationsOf(dat[n], n - 1, categories)

\* formatAsCOCO (490-554)
formatAsCOCO(dat, classes, res, now) ==
  [info |-> [date_created |-> now],
   images |-> [m \in 1..Len(dat) |->
                 [id |-> (m - 1) + 1,
                  file_name |-> PngName(dat[m].imageId),
                  width |-> res[1],
                  height |-> res[2],
                  date_captured |-> now]],
   annotations |-> CocoAnnotations(dat, Len(dat), CocoCategories(classes)),
   categories |-> CocoCategories(classes)]

\* A bndbox whose maximum corner is the stored width and height.
VocBndboxOfSize(bbox) ==
  [xmin |-> bbox[1], ymin |-> bbox[2], xmax |-> bbox[3], ymax |-> bbox[4]]

\* bndbox of formatAsPascalVOC (570-575)
VocBndbox(bbox) ==
  [xmin |-> bbox[1], ymin |-> bbox[2],
   xmax |-> bbox[1] + bbox[3], ymax |-> bbox[2] + bbox[4]]

\* formatAsPascalVOC (556-579)
formatAsPascalVOC(dat, res) ==
  [format |-> "PASCAL_VOC",
   data |-> [m \in 1..Len(dat) |->
               [filename |-> PngName(dat[m].imageId),
                width |-> res[1],
                height |-> res[2],
                objects |-> [k \in 1..Len(dat[m].annotations) |->
                               [name |-> dat[m].annotations[k].category_name,
                                pose |-> "Unspecified",
                                truncated |-> 0,
                                difficult |-> 0,
                                bndbox |-> VocBndbox(dat[m].annotations[k].bbox)]]]]]

\* What `${classMap[name]}' prints for a name classMap has no entry for.
undefined == <<>>

\* classMap of formatAsYOLO (584-587): a later class of the same name
\* overwrites the entry of an earlier one.
ClassMapLookup(classes, name) ==
  IF \E n \in 1..Len(classes) : classes[n].name = name
  THEN <<(CHOOSE n \in 1..Len(classes) :
            /\ classes[n].name = name
            /\ \A q \in (n + 1)..Len(classes) : classes[q].name # name) - 1>>
  ELSE undefined

Decimals == 6

\* (num/den).toFixed(5): one digit short.
toFixedShort(num, den) ==
  LET mag == IF num < 0 THEN -num ELSE num
      n == (2 * mag * 10^(Decimals - 1) + den) \div (2 * den)
  IN  [neg |-> num < 0, whole |-> n \div 10^(Decimals - 1),
       digits |-> Decimals - 1, frac |-> n % 10^(Decimals - 1)]

\* (num/den).toFixed(6) for den > 0: sign, integer part and the 6 digits
\* after the point, the nearest value with ties going up in magnitude.
toFixed(num, den) ==
  LET mag == IF num < 0 THEN -num ELSE num
      n == (2 * mag * 10^Decimals + den) \div (2 * den)
  IN  [neg |-> num < 0, whole |-> n \div 10^Decimals,
       digits |-> Decimals, frac |-> n % 10^Decimals]

\* One line of formatAsYOLO (594-600) for a stored bbox, in an image of
\* res[1] x res[2] pixels: class, x centre, y centre, width, height.
YoloLine(anno, classes, res) ==
  <<ClassMapLookup(classes, anno.category_name),
    toFixed(2 * anno.bbox[1] + anno.bbox[3], 2 * Sub * res[1]),
    toFixed(2 * anno.bbox[2] + anno.bbox[4], 2 * Sub * res[2]),
    toFixed(anno.bbox[3], Sub * res[1]),
    toFixed(anno.bbox[4], Sub * res[2])>>

\* formatAsYOLO (581-604)
formatAsYOLO(dat, classes, res) ==
  [format |-> "YOLO",
   classes |-> [n \in 1..Len(classes) |-> classes[n].name],
   data |-> [m \in 1..Len(dat) |->
               [image |-> PngName(dat[m].imageId),
                annotations |-> [k \in 1..Len(dat[m].annotations) |->
                                   YoloLine(dat[m].annotations[k], classes, res)]]]]

\* ------------------------------------------------- the 2D box of an object
\* Math.round of a coordinate held in 1/Sub pixels, in the same unit.
MathRound(v) == Sub * ((2 * v + Sub) \div (2 * Sub))

MinBoxSize == 5

\* min/max of generators.ts (357-360) over corners rounded at 351-352.
ClipRounded(e, res) ==
  [minX |-> Max(0, MathRound(e.minX)),
   maxX |-> Min(Sub * res[1], MathRound(e.maxX)),
   minY |-> Max(0, MathRound(e.minY)),
   maxY |-> Min(Sub * res[2], MathRound(e.maxY))]

\* min/max of SyntheticDataPanel.tsx 2236-2239 and part_003 273-276.
Clip(e, res) ==
  [minX |-> Max(0, e.minX),
   maxX |-> Min(Sub * res[1], e.maxX),
   minY |-> Max(0, e.minY),
   maxY |-> Min(Sub * res[2], e.maxY)]

\* "Skip if bounding box is outside the view"
OutsideView(c, res) ==
  c.maxX <= 0 \/ c.minX >= Sub * res[1] \/ c.maxY <= 0 \/ c.minY >= Sub * res[2]

\* "Skip if bounding box is too small" (generators.ts 368)
TooSmall(c) ==
  (c.maxX - c.minX) < MinBoxSize * Sub \/ (c.maxY - c.minY) < MinBoxSize * Sub

\* bbox and area of the record pushed for a clipped extent
BoxOf(c) ==
  [bbox |-> <<c.minX, c.minY, c.maxX - c.minX, c.maxY - c.minY>>,
   area |-> (c.maxX - c.minX) * (c.maxY - c.minY)]

\* generators.ts generateAnnotationsForImage (347-382) for one object:
\* the list of records pushed, empty or of one element.
ForImageBoxes(e, res) ==
  LET c == ClipRounded(e, res)
  IN  IF OutsideView(c, res) \/ TooSmall(c) THEN <<>> ELSE <<BoxOf(c)>>

\* SyntheticDataPanel.tsx generateAnnotationsForImage (2235-2257)
PanelForImageBoxes(e, res) ==
  LET c == Clip(e, res)
  IN  IF OutsideView(c, res) THEN <<>> ELSE <<BoxOf(c)>>

\* part_003 generateAnnotationsForImage (272-293)
Part003Boxes(e, res) ==
  LET c == Clip(e, res)
  IN  IF OutsideView(c, res) THEN <<>> ELSE <<BoxOf(c)>>

\* SyntheticDataPanel.tsx generateAnnotations (468-484): no clipping
PanelBoxes(e, res) ==
  <<[bbox |-> PanelBox(e), area |-> (e.maxX - e.minX) * (e.maxY - e.minY)]>>

\* generators.ts generateAnnotationsForImage (308-385) for camera j, stream s.
generateAnnotationsForImage(classes, j, s, res) ==
  LET Seen(k) == /\ FindClass(classes, objectClassIds[k]) # 0
                 /\ ForImageBoxes(ScreenExtent(j, s, k), res) # <<>>
      objs == SelectSeq([k \in 1..Len(objectClassIds) |-> k], Seen)
  IN  [q \in 1..Len(objs) |->
         LET classInfo == classes[FindClass(classes, objectClassIds[objs[q]])]
             b == ForImageBoxes(ScreenExtent(j, s, objs[q]), res)[1]
         IN  [objectId |-> objs[q],
              classId |-> objectClassIds[objs[q]],
              className |-> classInfo.name,
              bbox |-> b.bbox,
              area |-> b.area,
              iscrowd |-> 0]]

\* exportAsCOCO of utils/syntheticData/exporters (called at
\* SyntheticDataPanel.tsx 1673; the file is not part of the sources read):
\* categories 1..n in class order, category_id by lookup of the category
\* whose name is the annotation's className.
exportAsCOCO(images, classes) ==
  LET categories == [n \in 1..Len(classes) |-> [id |-> n, name |-> classes[n].name]]
      Of(m) == [k \in 1..Len(images[m].annotations) |->
                  [id |-> (m - 1) * IdStride + (k - 1) + 1,
                   image_id |-> m,
                   classId |-> images[m].annotations[k].classId,
                   category_id |->
                     findIndex(categories, images[m].annotations[k].className) + 1,
                   bbox |-> images[m].annotations[k].bbox]]
  IN  [images |-> [m \in 1..Len(images) |->
                     [id |-> m, file_name |-> PngName(images[m].id)]],
       annotations |-> [m \in 1..Len(images) |-> Of(m)],
       categories |-> categories]

\* The sweep component is not mounted.
SweepIdle ==
  /\ variant = "Panel"
  /\ scene = InitialScene
  /\ objectAnnotations = {}
  /\ randomizationSettings \in {c \in RandomizationSettings : ~c.enabled}
  /\ samples = 0
  /\ cameraCount = 0
  /\ rendererReady = FALSE
  /\ isGenerating = FALSE
  /\ progress = Percent(0, 1)
  /\ previewImage = null
  /\ generatedImages = <<>>
  /\ originalTransforms = NoMap
  /\ originalLights = NoMap
  /\ sweeps = <<>>
  /\ requests = 0
  /\ ended = NoEnd
  /\ lastOp = Other
  /\ effect = Mounted

ClassLists ==
  UNION {{[n \in 1..nc |-> [id |-> ClassId(n), name |-> f[n]]] :
            f \in [1..nc -> ClassNames]} : nc \in 1..MaxClasses}

ExportInit ==
  /\ flow \in {"Panel", "Download"}
  /\ annotationClasses \in ClassLists
  /\ sweepClasses = annotationClasses
  /\ objectClassIds \in
       UNION {[1..n -> {ClassId(c) : c \in 1..Len(annotationClasses)}] :
                n \in 1..MaxAnnotated}
  /\ resolution \in Resolutions
  /\ data = <<>>
  /\ exported = NoExport
  /\ SweepIdle
  /\ BoxIdle
  /\ ZipIdle
  /\ StoreIdle

\* One pass of the capture loop: annotations.push (393-399) in the panel,
\* result.push (generators.ts 130-149) in the generator.
CaptureAnnotations ==
  /\ exported = NoExport
  /\ Len(data) < MaxImages
  /\ \E s \in Streams :
       LET i == Len(data) \div MaxCameras
           j == Len(data) % MaxCameras
       IN  data' = Append(data,
             IF flow = "Panel"
             THEN [imageId |-> ImageId(i, j),
                   annotations |-> generateAnnotations(sweepClasses, j, s)]
             ELSE [id |-> ImageId(i, j),
                   annotations |->
                     generateAnnotationsForImage(sweepClasses, j, s, resolution)])
  /\ UNCHANGED <<flow, annotationClasses, sweepClasses, objectClassIds,
                 resolution, exported>>
  /\ UNCHANGED <<storeVars, sweepVars, effectVars, boxVars, zipVars>>

\* annotationStore updateAnnotationClass (36-40) with a new name
updateAnnotationClass ==
  /\ \E n \in 1..Len(annotationClasses), name \in ClassNames :
       /\ annotationClasses[n].name # name
       /\ annotationClasses' = [annotationClasses EXCEPT ![n].name = name]
  /\ UNCHANGED <<flow, sweepClasses, objectClassIds, resolution, data, exported>>
  /\ UNCHANGED <<storeVars, sweepVars, effectVars, boxVars, zipVars>>

\* exportAnnotations (606-632) at the end of the panel's sweep (418); the
\* formatters read annotationClasses and cameraSettings of the sweep's closure.
exportAnnotations ==
  /\ flow = "Panel"
  /\ exported = NoExport
  /\ \E format \in Formats, now \in Clock :
       exported' =
         [format |-> format, now |-> now, classes |-> sweepClasses,
          doc |-> IF format = "COCO"
                  THEN formatAsCOCO(data, sweepClasses, resolution, now)
                  ELSE IF format = "PASCAL_VOC"
                  THEN formatAsPascalVOC(data, resolution)
                  ELSE formatAsYOLO(data, sweepClasses, resolution)]
  /\ UNCHANGED <<flow, annotationClasses, sweepClasses, objectClassIds,
                 resolution, data>>
  /\ UNCHANGED <<storeVars, sweepVars, effectVars, boxVars, zipVars>>

\* handleDownload (1665-1694) with outputFormat COCO: the export reads the
\* annotationClasses of the render the click happens in.
handleDownload ==
  /\ flow = "Download"
  /\ Len(data) # 0
  /\ exported = NoExport
  /\ \E now \in Clock :
       exported' = [format |-> "COCO", now |-> now, classes |-> annotationClasses,
                    doc |-> exportAsCOCO(data, annotationClasses)]
  /\ UNCHANGED <<flow, annotationClasses, sweepClasses, objectClassIds,
                 resolution, data>>
  /\ UNCHANGED <<storeVars, sweepVars, effectVars, boxVars, zipVars>>

ExportNext ==
  \/ CaptureAnnotations
  \/ updateAnnotationClass
  \/ exportAnnotations
  \/ handleDownload

ExportSpec == ExportInit /\ [][ExportNext]_vars

\* ------------------------------------------------ properties of the export
\* C12: COCO categories are numbered 1..n in class-list order, YOLO classes
\* are the names in the same order, and for every annotation the COCO
\* category_id is the YOLO class index plus 1.
C12_CategoryIsClassIndexPlusOne ==
  (flow = "Panel" /\ exported # NoExport) =>
    LET coco == formatAsCOCO(data, exported.classes, resolution, exported.now)
        yolo == formatAsYOLO(data, exported.classes, resolution)
    IN  /\ Len(coco.categories) = Len(exported.classes)
        /\ Len(yolo.classes) = Len(exported.classes)
        /\ \A n \in 1..Len(exported.classes) :
             /\ coco.categories[n].id = n
             /\ coco.categories[n].name = exported.classes[n].name
             /\ yolo.classes[n] = exported.classes[n].name
        /\ \A m \in 1..Len(data) :
             \A k \in 1..Len(data[m].annotations) :
               LET a == CocoAnnotationsOf(data[m], m - 1, coco.categories)[k]
                   line == yolo.data[m].annotations[k]
               IN  /\ line[1] # undefined
                   /\ a.category_id = line[1][1] + 1

RECURSIVE AnnotationsBefore(_, _)
\* Number of annotations formatAsCOCO has pushed before the m-th item.
AnnotationsBefore(dat, m) ==
  IF m <= 1 THEN 0
  ELSE AnnotationsBefore(dat, m - 1) + Len(dat[m - 1].annotations)

\* C13: in a COCO export the k-th annotation (0-based) of the m-th image
\* (0-based) has id m*1000 + k + 1 and image_id m + 1, and with fewer than
\* 1000 annotations in every image all annotation ids are pairwise distinct.
C13_CocoAnnotationIds ==
  (flow = "Panel" /\ exported.format = "COCO") =>
    LET annos == exported.doc.annotations
    IN  /\ \A m \in 1..Len(data) :
             \A k \in 1..Len(data[m].annotations) :
               LET a == annos[AnnotationsBefore(data, m) + k]
               IN  /\ a.id = (m - 1) * 1000 + (k - 1) + 1
                   /\ a.image_id = (m - 1) + 1
        /\ (\A m \in 1..Len(data) : Len(data[m].annotations) < 1000) =>
             \A p, q \in 1..Len(annos) : p # q => annos[p].id # annos[q].id

\* A COCO export of two images with two annotations each.
C13_Witness ==
  /\ flow = "Panel"
  /\ exported.format = "COCO"
  /\ Len(data) = 2
  /\ Len(data[1].annotations) = 2
  /\ Len(data[2].annotations) = 2
  /\ Len(exported.doc.annotations) = 4

\* Are the names of a class list pairwise distinct?
UniqueNames(classes) ==
  \A p, q \in 1..Len(classes) : p # q => classes[p].name # classes[q].name

\* C14: with unique class names, every COCO annotation of an object gets the
\* category_id of the object's class, its 1-based position in the class list
\* of the export, also when the class was renamed after the capture.
C14_RenamedClassKeepsCategory ==
  (flow = "Download" /\ exported # NoExport /\ UniqueNames(exported.classes)) =>
    \A m \in 1..Len(data) :
      \A k \in 1..Len(data[m].annotations) :
        exported.doc.annotations[m][k].category_id =
          FindClass(exported.classes, data[m].annotations[k].classId)

\* The images of a list in the opposite order.
Reversed(dat) == [m \in 1..Len(dat) |-> dat[Len(dat) + 1 - m]]

\* The document exportAnnotations builds for a format.
Document(format, dat, classes, res, now) ==
  IF format = "COCO" THEN formatAsCOCO(dat, classes, res, now)
  ELSE IF format = "PASCAL_VOC" THEN formatAsPascalVOC(dat, res)
  ELSE formatAsYOLO(dat, classes, res)

\* C15: an export made again from the same images and classes gives the same
\* document, and so does an export of the same images in another list order.
C15_ExportDeterministic ==
  (flow = "Panel" /\ exported # NoExport) =>
    /\ \A now \in Clock :
         Document(exported.format, data, exported.classes, resolution, now)
           = exported.doc
    /\ Document(exported.format, Reversed(data), exported.classes, resolution,
                exported.now) = exported.doc

\* C16: the Pascal VOC export has one entry per input image, in input
\* order, and each object built from a stored bbox [x, y, w, h] has
\* xmin = x, ymin = y, xmax = x + w, ymax = y + h, pose "Unspecified",
\* truncated 0 and difficult 0.
C16_VocEntries ==
  (flow = "Panel" /\ exported.format = "PASCAL_VOC") =>
    /\ Len(exported.doc.data) = Len(data)
    /\ \A m \in 1..Len(data) :
         LET entry == exported.doc.data[m]
         IN  /\ entry.filename = <<data[m].imageId, ".png">>
             /\ Len(entry.objects) = Len(data[m].annotations)
             /\ \A k \in 1..Len(data[m].annotations) :
                  LET b == data[m].annotations[k].bbox
                      o == entry.objects[k]
                  IN  /\ o.bndbox.xmin = b[1]
                      /\ o.bndbox.ymin = b[2]
                      /\ o.bndbox.xmax = b[1] + b[3]
                      /\ o.bndbox.ymax = b[2] + b[4]
                      /\ o.pose = "Unspecified"
                      /\ o.truncated = 0
                      /\ o.difficult = 0

\* A Pascal VOC export of two images, the second with an annotation.
C16_Witness ==
  /\ flow = "Panel"
  /\ exported.format = "PASCAL_VOC"
  /\ Len(exported.doc.data) = 2
  /\ Len(exported.doc.data[2].objects) >= 1

\* Is the printed number t the 6-decimal number nearest to num/den ?
PrintsNearest(t, num, den) ==
  LET mag == IF num < 0 THEN -num ELSE num
      n == t.whole * 1000000 + t.frac
      d == n * den - mag * 1000000
  IN  /\ t.digits = 6
      /\ t.frac \in 0..999999
      /\ t.neg = (num < 0)
      /\ 2 * (IF d < 0 THEN -d ELSE d) <= den

\* Is the printed number within [0, 1] ?
InUnit(t) == ~t.neg /\ (t.whole = 0 \/ (t.whole = 1 /\ t.frac = 0))

\* C17: each YOLO line of a stored bbox [x, y, w, h] in a W x H image is
\* the class index followed by (x + w/2)/W, (y + h/2)/H, w/W and h/H with
\* exactly 6 decimals; for a bbox inside the image the four numbers are in
\* [0,1]; bbox [10,20,30,40] in a 100 x 100 image gives 0.250000 0.400000
\* 0.300000 0.400000.
C17_YoloLine ==
  (flow = "Panel" /\ exported.format = "YOLO") =>
    \A m \in 1..Len(data) :
      \A k \in 1..Len(data[m].annotations) :
        LET b == data[m].annotations[k].bbox
            W == Sub * resolution[1]
            H == Sub * resolution[2]
            line == exported.doc.data[m].annotations[k]
        IN  /\ Len(line) = 5
            /\ line[1] = ClassMapLookup(exported.classes,
                                        data[m].annotations[k].category_name)
            /\ PrintsNearest(line[2], 2 * b[1] + b[3], 2 * W)
            /\ PrintsNearest(line[3], 2 * b[2] + b[4], 2 * H)
            /\ PrintsNearest(line[4], b[3], W)
            /\ PrintsNearest(line[5], b[4], H)
            /\ (b[1] >= 0 /\ b[2] >= 0 /\ b[3] >= 0 /\ b[4] >= 0
                  /\ b[1] + b[3] <= W /\ b[2] + b[4] <= H) =>
                 \A n \in 2..5 : InUnit(line[n])
            /\ (b = <<10 * Sub, 20 * Sub, 30 * Sub, 40 * Sub>>
                  /\ resolution = <<100, 100>>) =>
                 /\ line[2] = [neg |-> FALSE, whole |-> 0, digits |-> 6, frac |-> 250000]
                 /\ line[3] = [neg |-> FALSE, whole |-> 0, digits |-> 6, frac |-> 400000]
                 /\ line[4] = [neg |-> FALSE, whole |-> 0, digits |-> 6, frac |-> 300000]
                 /\ line[5] = [neg |-> FALSE, whole |-> 0, digits |-> 6, frac |-> 400000]

\* A YOLO export holding the line of bbox [10,20,30,40] in a 100 x 100
\* image and a line whose numbers need rounding.
C17_Witness ==
  /\ flow = "Panel"
  /\ exported.format = "YOLO"
  /\ resolution = <<100, 100>>
  /\ Len(data) = 2
  /\ Len(data[1].annotations) >= 1
  /\ data[1].annotations[1].bbox = <<10 * Sub, 20 * Sub, 30 * Sub, 40 * Sub>>
  /\ Len(data[2].annotations) >= 1
  /\ exported.doc.data[2].annotations[1][2].frac % 1000 # 0

\* ------------------------------------------------ boxes of one image
\* Annotated objects visited by one call of an annotator.
MaxProjected == 2

\* The builds of the annotator: generators.ts generateAnnotationsForImage,
\* the two copies of it in SyntheticDataPanel.tsx and part_003, and
\* generateAnnotations of the panel.
Annotators == {"generators", "panelForImage", "part003", "panel"}

\* min and max of the projected corners along x, in 1/Sub pixel: inside,
\* cut by the left edge, cut by the right edge, past the right edge,
\* 4.5 pixels wide, and flat.
SpansX == {<<11, 90>>, <<-7, 70>>, <<31, 230>>, <<200, 230>>, <<0, 9>>, <<9, 9>>}

\* The same along y: inside, cut by both edges, and 1.5 pixels high.
SpansY == {<<11, 90>>, <<-7, 230>>, <<8, 11>>}

Extents ==
  {[minX |-> sx[1], maxX |-> sx[2], minY |-> sy[1], maxY |-> sy[2]] :
     sx \in SpansX, sy \in SpansY}

ExtentLists == UNION {[1..n -> Extents] : n \in 1..MaxProjected}

BoxInit ==
  /\ SweepIdle
  /\ ExportIdle
  /\ ZipIdle
  /\ StoreIdle
  /\ annotator \in Annotators
  /\ \E res \in Resolutions, es \in ExtentLists :
       projected = [width |-> res[1], height |-> res[2], extents |-> es]
  /\ emitted = NoBoxes

\* The object the loop over the annotated objects comes to next.
NextExtent == projected.extents[emitted.visited + 1]
ImageSize == <<projected.width, projected.height>>

\* emitted after a turn of the loop that pushed `boxes'.
Visited(boxes) ==
  [visited |-> emitted.visited + 1, annotations |-> emitted.annotations \o boxes]

\* One turn of scene.traverse in generators.ts generateAnnotationsForImage.
GeneratorsVisit ==
  /\ annotator = "generators"
  /\ emitted.visited < Len(projected.extents)
  /\ emitted' = Visited(ForImageBoxes(NextExtent, ImageSize))
  /\ UNCHANGED <<annotator, projected>>
  /\ UNCHANGED <<storeVars, sweepVars, effectVars, exportVars, zipVars>>

\* The same in SyntheticDataPanel.tsx generateAnnotationsForImage.
PanelForImageVisit ==
  /\ annotator = "panelForImage"
  /\ emitted.visited < Len(projected.extents)
  /\ emitted' = Visited(PanelForImageBoxes(NextExtent, ImageSize))
  /\ UNCHANGED <<annotator, projected>>
  /\ UNCHANGED <<storeVars, sweepVars, effectVars, exportVars, zipVars>>

\* The same in part_003 generateAnnotationsForImage.
Part003Visit ==
  /\ annotator = "part003"
  /\ emitted.visited < Len(projected.extents)
  /\ emitted' = Visited(Part003Boxes(NextExtent, ImageSize))
  /\ UNCHANGED <<annotator, projected>>
  /\ UNCHANGED <<storeVars, sweepVars, effectVars, exportVars, zipVars>>

\* One turn of objects.forEach in SyntheticDataPanel.tsx generateAnnotations.
PanelVisit ==
  /\ annotator = "panel"
  /\ emitted.visited < Len(projected.extents)
  /\ emitted' = Visited(PanelBoxes(NextExtent, ImageSize))
  /\ UNCHANGED <<annotator, projected>>
  /\ UNCHANGED <<storeVars, sweepVars, effectVars, exportVars, zipVars>>

BoxNext ==
  \/ GeneratorsVisit
  \/ PanelForImageVisit
  \/ Part003Visit
  \/ PanelVisit

BoxSpec == BoxInit /\ [][BoxNext]_vars

\* C18: every emitted annotation of an image of size width x height has a
\* bbox [x, y, w, h] with 0 <= x, 0 <= y, x + w <= width, y + h <= height,
\* and an area equal to w * h.
C18_BoxClippedToViewport ==
  \A n \in 1..Len(emitted.annotations) :
    LET a == emitted.annotations[n]
    IN  /\ 0 <= a.bbox[1]
        /\ 0 <= a.bbox[2]
        /\ a.bbox[1] + a.bbox[3] <= Sub * projected.width
        /\ a.bbox[2] + a.bbox[4] <= Sub * projected.height
        /\ a.area = a.bbox[3] * a.bbox[4]

\* C19: no annotation is emitted for a box of zero or negative size, a box
\* outside the viewport, or a box narrower or shorter than 5 pixels: every
\* emitted annotation has w >= 5 and h >= 5.
C19_NoSmallBoxes ==
  \A n \in 1..Len(emitted.annotations) :
    LET a == emitted.annotations[n]
    IN  /\ a.bbox[3] >= 5 * Sub
        /\ a.bbox[4] >= 5 * Sub
        /\ a.bbox[1] < Sub * projected.width
        /\ a.bbox[2] < Sub * projected.height
        /\ a.bbox[1] + a.bbox[3] > 0
        /\ a.bbox[2] + a.bbox[4] > 0

\* ------------------------------------------------ packaging
\* Images handed to one createSyntheticDataZip call.
MaxZipImages == 3

\* generatedImages at the time of a download: the images of the pairs in
\* loop order, each holding what toDataURL returned for it.
ZipImageLists ==
  UNION {{[m \in 1..n |->
             [id |-> ImageId((m - 1) \div MaxCameras, (m - 1) % MaxCameras),
              dataUrl |-> IF m \in bad THEN EmptyDataUrl
                          ELSE DataUrl((m - 1) % MaxCameras)]] :
            bad \in SUBSET (1..n)} : n \in 1..MaxZipImages}

\* dataUrl.startsWith('data:image/')
StartsWithDataImage(dataUrl) ==
  dataUrl # null /\ dataUrl[1] = "data:image/png;base64,"

\* atob(dataUrl.split(',')[1]): the bytes after the comma, none for 'data:,'
DecodedBytes(dataUrl) == IF Len(dataUrl) >= 2 THEN <<dataUrl[2]>> ELSE <<>>

\* The entry name with the image id left out.
ImageFileNameNoId(id) == <<"images/", ".png">>

\* imagesFolder.file(`${image.id}.png`, ...): the name inside the archive
ImageFileName(id) == <<"images/", id, ".png">>

\* JSZip file(name, content): a later entry of the same name replaces the
\* earlier one.
PutFile(files, name, content) ==
  {f \in files : f.name # name} \cup {[name |-> name, dir |-> FALSE, content |-> content]}

\* new JSZip(); zip.file('annotations.json', ...); zip.folder('images')
NewZip(json) ==
  {[name |-> <<"annotations.json">>, dir |-> FALSE, content |-> json],
   [name |-> <<"images/">>, dir |-> TRUE, content |-> <<>>]}

ZipInit ==
  /\ SweepIdle
  /\ ExportIdle
  /\ BoxIdle
  /\ StoreIdle
  /\ zipVersion \in {1, 2}
  /\ zipImages \in ZipImageLists
  /\ annotationsJson \in {[format |-> f] : f \in Formats}
  /\ archive = NoArchive

\* createSyntheticDataZip up to the loop (part_002 67-74 and 137-144).
ZipCreate ==
  /\ archive = NoArchive
  /\ archive' = [pc |-> "loop", next |-> 1, warnings |-> 0, errors |-> 0,
                 files |-> NewZip(annotationsJson)]
  /\ UNCHANGED <<zipVersion, zipImages, annotationsJson>>
  /\ UNCHANGED <<storeVars, sweepVars, effectVars, exportVars, boxVars>>

\* An image data URL whose base64 part atob() rejects (payload -1).
CorruptDataUrl == <<"data:image/png;base64,", -1>>

\* Does atob(dataUrl.split(',')[1]) return (instead of throwing)?
Decodable(dataUrl) == dataUrl # CorruptDataUrl

\* One turn of the loop of part_002 76-90: every image gets an entry; a
\* missing dataUrl (split of undefined) or a failing atob throws out of
\* the function.
ZipAddImage ==
  /\ zipVersion = 1
  /\ archive.pc = "loop"
  /\ archive.next <= Len(zipImages)
  /\ LET image == zipImages[archive.next]
     IN  IF image.dataUrl = null \/ ~Decodable(image.dataUrl)
         THEN archive' = [archive EXCEPT !.pc = "error"]
         ELSE archive' = [archive EXCEPT
                            !.next = @ + 1,
                            !.files = PutFile(@, ImageFileName(image.id),
                                              DecodedBytes(image.dataUrl))]
  /\ UNCHANGED <<zipVersion, zipImages, annotationsJson>>
  /\ UNCHANGED <<storeVars, sweepVars, effectVars, exportVars, boxVars>>

\* One turn of the loop of part_002 146-171: "Skip invalid data URLs",
\* and the catch around the turn when atob throws.
ZipAddValidImage ==
  /\ zipVersion = 2
  /\ archive.pc = "loop"
  /\ archive.next <= Len(zipImages)
  /\ LET image == zipImages[archive.next]
     IN  IF image.dataUrl = null \/ ~StartsWithDataImage(image.dataUrl)
         THEN archive' = [archive EXCEPT !.next = @ + 1, !.warnings = @ + 1]
         ELSE IF ~Decodable(image.dataUrl)
         THEN archive' = [archive EXCEPT !.next = @ + 1, !.errors = @ + 1]
         ELSE archive' = [archive EXCEPT
                            !.next = @ + 1,
                            !.files = PutFile(@, ImageFileName(image.id),
                                              DecodedBytes(image.dataUrl))]
  /\ UNCHANGED <<zipVersion, zipImages, annotationsJson>>
  /\ UNCHANGED <<storeVars, sweepVars, effectVars, exportVars, boxVars>>

\* zip.generateAsync({type: 'blob'}): the archive is returned.
ZipGenerate ==
  /\ archive.pc = "loop"
  /\ archive.next > Len(zipImages)
  /\ archive' = [archive EXCEPT !.pc = "blob"]
  /\ UNCHANGED <<zipVersion, zipImages, annotationsJson>>
  /\ UNCHANGED <<storeVars, sweepVars, effectVars, exportVars, boxVars>>

ZipNext ==
  \/ ZipCreate
  \/ ZipAddImage
  \/ ZipAddValidImage
  \/ ZipGenerate

ZipSpec == ZipInit /\ [][ZipNext]_vars

\* The file entries of the archive under images/ and at the root.
ImageEntries == {f \in archive.files : ~f.dir /\ f.name[1] = "images/"}
RootEntries == {f \in archive.files : ~f.dir /\ f.name[1] # "images/"}

Payloads(cam) == {DataUrl(cam), EmptyDataUrl, null, CorruptDataUrl}

FaultyImageLists ==
  UNION {{[m \in 1..n |->
             [id |-> ImageId((m - 1) \div MaxCameras, (m - 1) % MaxCameras),
              dataUrl |-> f[m]]] :
            f \in {g \in [1..n -> Payloads(0) \cup Payloads(1)] :
                     \A m \in 1..n : g[m] \in Payloads((m - 1) % MaxCameras)}} :
         n \in 1..MaxZipImages}

ZipFaultInit ==
  /\ SweepIdle
  /\ ExportIdle
  /\ BoxIdle
  /\ StoreIdle
  /\ zipVersion \in {1, 2}
  /\ zipImages \in FaultyImageLists
  /\ annotationsJson \in {[format |-> f] : f \in Formats}
  /\ archive = NoArchive

ZipFaultSpec == ZipFaultInit /\ [][ZipNext]_vars

\* Has createSyntheticDataZip ended (returned the blob or thrown)?
ZipEnded == archive.pc \in {"blob", "error"}

\* Images whose payload is an image data URL that decodes.
ValidPayloads ==
  {m \in 1..Len(zipImages) :
     /\ zipImages[m].dataUrl # <<>>
     /\ zipImages[m].dataUrl[1] = "data:image/png;base64,"
     /\ zipImages[m].dataUrl # <<"data:image/png;base64,", -1>>}

\* C21: an image whose payload is missing, is not an image data URL or
\* does not decode is skipped, alone: createSyntheticDataZip does not throw,
\* annotations.json is in the archive, every image with a valid payload has
\* its entry, and the skipped images have none.
C21_BadPayloadSkipped ==
  ZipEnded =>
    /\ archive.pc = "blob"
    /\ [name |-> <<"annotations.json">>, dir |-> FALSE,
        content |-> annotationsJson] \in archive.files
    /\ \A m \in 1..Len(zipImages) :
         IF m \in ValidPayloads
         THEN [name |-> <<"images/", zipImages[m].id, ".png">>, dir |-> FALSE,
               content |-> <<zipImages[m].dataUrl[2]>>] \in archive.files
         ELSE \A f \in archive.files :
                f.name # <<"images/", zipImages[m].id, ".png">>

\* ------------------------------------------------ the annotation store
\* uuids of the objects of the scene, and one of no object of the scene.
SceneIds == {"mesh1", "mesh2"}
ForeignId == "ghost"

\* objectAnnotations is a JS object keyed by objectId: the set of its
\* entries [objectId, classId, timestamp], one per key.
SetKey(anns, entry) == {a \in anns : a.objectId # entry.objectId} \cup {entry}
DeleteKey(anns, objectId) == {a \in anns : a.objectId # objectId}

\* annotationStore.ts 32-34
addAnnotationClass(st, classData) ==
  [st EXCEPT !.annotationClasses = Append(@, classData)]

\* annotationStore.ts 36-40
updateAnnotationClassIn(st, id, updates) ==
  [st EXCEPT !.annotationClasses =
     [n \in 1..Len(@) |-> IF @[n].id = id THEN [@[n] EXCEPT !.name = updates.name]
                          ELSE @[n]]]

\* removeAnnotationClass that forgets the annotations of the class.
removeAnnotationClassOnly(st, id) ==
  [st EXCEPT !.annotationClasses = SelectSeq(@, LAMBDA cls : cls.id # id)]

\* annotationStore.ts 42-58
removeAnnotationClass(st, id) ==
  [st EXCEPT !.annotationClasses = SelectSeq(@, LAMBDA cls : cls.id # id),
             !.objectAnnotations = {a \in @ : a.classId # id}]

\* annotationStore.ts 60-69
setObjectAnnotationIn(st, objectId, classId, now) ==
  [st EXCEPT !.objectAnnotations =
     SetKey(@, [objectId |-> objectId, classId |-> classId, timestamp |-> now])]

\* annotationStore.ts 71-75
removeObjectAnnotationIn(st, objectId) ==
  [st EXCEPT !.objectAnnotations = DeleteKey(@, objectId)]

\* annotationStore.ts 82-84
clearAllAnnotations(st) == [st EXCEPT !.objectAnnotations = {}]

\* annotationStore.ts 77-80
storeImportAnnotations(st, dat) ==
  [st EXCEPT !.annotationClasses = dat.classes,
             !.objectAnnotations = dat.annotations]

\* A validation that does not look at the version.
ValidImportNoVersion(doc) == {"classes", "annotations"} \subseteq doc.has

\* !(!data.version || !data.classes || !data.annotations), generators.ts 397
ValidImport(doc) == {"version", "classes", "annotations"} \subseteq doc.has

\* validAnnotations of generators.ts 401-412
validAnnotations(doc, objects, now) ==
  {[objectId |-> a.objectId, classId |-> a.classId, timestamp |-> now] :
     a \in {b \in doc.annotations : b.objectId \in objects}}

\* importAnnotations of generators.ts 393-421: the store it leaves, and
\* whether it threw.
importAnnotations(st, doc, objects, now) ==
  IF ~ValidImport(doc)
  THEN [threw |-> TRUE, store |-> st]
  ELSE [threw |-> FALSE,
        store |-> storeImportAnnotations(st,
                    [classes |-> doc.classes,
                     annotations |-> validAnnotations(doc, objects, now)])]

AllClassIds == {ClassId(k) : k \in 1..MaxClasses}

\* Annotation documents read from a file: any of the three fields can be
\* missing, and the annotations can name objects not in the scene.
ImportDocs ==
  {[has |-> h, classes |-> c, annotations |-> a] :
     h \in SUBSET {"version", "classes", "annotations"},
     c \in {<<>>, <<[id |-> ClassId(1), name |-> "tree"]>>},
     a \in {{[objectId |-> "mesh1", classId |-> ClassId(1)]},
            {[objectId |-> "mesh2", classId |-> ClassId(2)],
             [objectId |-> ForeignId, classId |-> ClassId(1)]}}}

StoreInit ==
  /\ SweepIdle
  /\ ExportIdle
  /\ BoxIdle
  /\ ZipIdle
  /\ store = EmptyStore
  /\ storeOp = NoStoreOp

StoreCall(name, arg) == [name |-> name, arg |-> arg, before |-> store]

\* AnnotationPanel.tsx 67-79
handleAddClass ==
  /\ store.uuids < MaxClasses
  /\ \E name \in ClassNames :
       LET classData == [id |-> ClassId(store.uuids + 1), name |-> name]
       IN  /\ store' = [addAnnotationClass(store, classData)
                          EXCEPT !.uuids = @ + 1]
           /\ storeOp' = StoreCall("addAnnotationClass", classData.id)
  /\ UNCHANGED <<sweepVars, effectVars, exportVars, boxVars, zipVars>>

\* AnnotationPanel.tsx 82-93
handleUpdateClass ==
  /\ \E n \in 1..Len(store.annotationClasses), name \in ClassNames :
       LET id == store.annotationClasses[n].id
       IN  /\ store' = updateAnnotationClassIn(store, id, [name |-> name])
           /\ storeOp' = StoreCall("updateAnnotationClass", id)
  /\ UNCHANGED <<sweepVars, effectVars, exportVars, boxVars, zipVars>>

\* AnnotationPanel.tsx 269; the id can also be one no class has any more
\* (a click handler created before the class was removed).
RemoveClass ==
  /\ \E id \in AllClassIds :
       /\ store' = removeAnnotationClass(store, id)
       /\ storeOp' = StoreCall("removeAnnotationClass", id)
  /\ UNCHANGED <<sweepVars, effectVars, exportVars, boxVars, zipVars>>

\* AnnotationPanel.tsx 102-107: the class is one of the list shown.
handleAssignClass ==
  /\ \E n \in 1..Len(store.annotationClasses), o \in SceneIds, now \in Clock :
       /\ store' = setObjectAnnotationIn(store, o, store.annotationClasses[n].id, now)
       /\ storeOp' = StoreCall("setObjectAnnotation", o)
  /\ UNCHANGED <<sweepVars, effectVars, exportVars, boxVars, zipVars>>

\* AnnotationPanel.tsx 348 and 397
RemoveAnnotation ==
  /\ \E o \in SceneIds :
       /\ store' = removeObjectAnnotationIn(store, o)
       /\ storeOp' = StoreCall("removeObjectAnnotation", o)
  /\ UNCHANGED <<sweepVars, effectVars, exportVars, boxVars, zipVars>>

ClearAll ==
  /\ store' = clearAllAnnotations(store)
  /\ storeOp' = StoreCall("clearAllAnnotations", <<>>)
  /\ UNCHANGED <<sweepVars, effectVars, exportVars, boxVars, zipVars>>

\* AnnotationPanel.tsx 37-52: importAnnotations(jsonData, objects), its
\* error caught and logged.
handleImport ==
  /\ \E doc \in ImportDocs, now \in Clock :
       LET r == importAnnotations(store, doc, SceneIds, now)
       IN  /\ store' = r.store
           /\ storeOp' = [name |-> "importAnnotations", arg |-> doc,
                          before |-> store, threw |-> r.threw, now |-> now]
  /\ UNCHANGED <<sweepVars, effectVars, exportVars, boxVars, zipVars>>

StoreNext ==
  \/ handleAddClass
  \/ handleUpdateClass
  \/ RemoveClass
  \/ handleAssignClass
  \/ RemoveAnnotation
  \/ ClearAll

StoreSpec == StoreInit /\ [][StoreNext]_vars

ImportNext ==
  \/ StoreNext
  \/ handleImport

ImportSpec == StoreInit /\ [][ImportNext]_vars

\* C22: an import of a document that lacks version, classes or annotations
\* throws and leaves the classes and the object annotations as they were;
\* an import that succeeds leaves the document's classes and exactly the
\* document's annotations of objects of the scene.
C22_ImportAllOrNothing ==
  storeOp.name = "importAnnotations" =>
    LET doc == storeOp.arg
        lacks == \E f \in {"version", "classes", "annotations"} : f \notin doc.has
    IN  /\ lacks => /\ storeOp.threw
                    /\ store = storeOp.before
        /\ ~lacks => ~storeOp.threw
        /\ ~storeOp.threw =>
             /\ store.annotationClasses = doc.classes
             /\ {[objectId |-> a.objectId, classId |-> a.classId] :
                   a \in store.objectAnnotations}
                  = {a \in doc.annotations : a.objectId \in {"mesh1", "mesh2"}}

\* An import into a store that holds a class and an annotation was
\* rejected for its missing version.
C22_Witness ==
  /\ storeOp.name = "importAnnotations"
  /\ storeOp.threw
  /\ storeOp.arg.has = {"classes", "annotations"}
  /\ storeOp.before.annotationClasses # <<>>
  /\ storeOp.before.objectAnnotations # {}
  /\ store = storeOp.before

\* ids of the classes of a store
ClassIdsOf(st) == {st.annotationClasses[n].id : n \in 1..Len(st.annotationClasses)}

\* C29: after any sequence of store calls from the empty store (no import),
\* every object annotation's classId is the id of a class of the list;
\* removeAnnotationClass removes the class and exactly the annotations of
\* that class; clearAllAnnotations leaves the class list as it was.
C29_StoreReferentialIntegrity ==
  /\ \A a \in store.objectAnnotations : a.classId \in ClassIdsOf(store)
  /\ \A a, b \in store.objectAnnotations : a.objectId = b.objectId => a = b
  /\ storeOp.name = "removeAnnotationClass" =>
       /\ store.objectAnnotations =
            {a \in storeOp.before.objectAnnotations : a.classId # storeOp.arg}
       /\ ClassIdsOf(store) = ClassIdsOf(storeOp.before) \ {storeOp.arg}
  /\ storeOp.name = "clearAllAnnotations" =>
       /\ store.annotationClasses = storeOp.before.annotationClasses
       /\ store.objectAnnotations = {}

\* A class with an annotated object was removed while another object kept
\* its annotation of another class.
C29_Witness ==
  /\ storeOp.name = "removeAnnotationClass"
  /\ Cardinality(storeOp.before.objectAnnotations) = 2
  /\ Cardinality(store.objectAnnotations) = 1
  /\ Len(store.annotationClasses) = 1

\* C23: a sweep asked for with an empty camera-position list is refused
\* before anything is changed: no sweep runs with zero cameras, and none
\* ends as a normally completed sweep with zero images.
C23_NoSweepWithoutCameras ==
  /\ \A k \in 1..Len(sweeps) : sweeps[k].C > 0
  /\ ended.outcome = "ok" => ended.C > 0

\* ============================================ randomize passes, one by one
\* The randomize pass of every component under settings whose sub-configs
\* are switched one by one, on a scene whose camera and lights may be
\* annotated.

SubConfigs ==
  {[enabled |-> e, position |-> p, rotation |-> r, scale |-> c,
    uniform |-> TRUE, lighting |-> l, colorVariation |-> 1] :
     e \in BOOLEAN, p \in BOOLEAN, r \in BOOLEAN, c \in BOOLEAN, l \in BOOLEAN}

\* objectAnnotations: the mesh alone, or every object of the list.
AnnotatedSets == {{"mesh1"}, Objects}

PassInit ==
  /\ variant \in Variants
  /\ scene = InitialScene
  /\ objectAnnotations \in AnnotatedSets
  /\ randomizationSettings \in SubConfigs
  /\ samples = 0
  /\ cameraCount = 0
  /\ rendererReady = FALSE
  /\ isGenerating = FALSE
  /\ progress = Percent(0, 1)
  /\ previewImage = null
  /\ generatedImages = <<>>
  \* Panel: the maps the mount effect has set; Generate: the maps
  \* handleGenerate fills before its sample loop (1476-1508)
  /\ originalTransforms =
       IF IsPanel(variant) THEN CaptureTransforms(scene, Objects)
       ELSE IF variant = "Generate"
       THEN CaptureTransforms(scene, annotatedObjects)
       ELSE NoMap
  /\ originalLights =
       IF variant = "Settings" THEN NoMap ELSE CaptureLights(scene, Objects)
  /\ sweeps = <<>>
  /\ requests = 0
  /\ ended = NoEnd
  /\ lastOp = Other
  /\ effect = IF IsPanel(variant) THEN Mounted ELSE NotMounted
  /\ ExportIdle
  /\ BoxIdle
  /\ ZipIdle
  /\ StoreIdle

\* The values a pass perturbs: the entries of the baseline maps, and for
\* createRandomizedScene the objects it clones.
PassTransforms ==
  IF variant = "Settings" THEN CaptureTransforms(scene, Objects)
  ELSE originalTransforms

PassLights ==
  IF variant = "Settings" THEN CaptureLights(scene, Objects)
  ELSE originalLights

\* Does a call of the pass get past its test of the master flag?
\* createRandomizedScene has no such test.
PassRuns ==
  variant = "Settings" \/ randomizationSettings.enabled

\* The objects the renderer is given after the pass with draws s.
PassResult(s) ==
  IF ~PassRuns THEN scene
  ELSE IF IsPanel(variant)
  THEN handleRandomizeScene(scene, randomizationSettings, originalTransforms,
                            originalLights, s)
  ELSE IF variant = "Generate"
  THEN GenRandomizeScene(scene, randomizationSettings, originalTransforms,
                         originalLights, s)
  ELSE createRandomizedScene(scene, objectAnnotations, randomizationSettings, s)

\* One randomize pass: the preview button of the panels, the top of the
\* sample loop of handleGenerate and of generateSyntheticData.
RandomizePass ==
  /\ variant = "Panel" => randomizationSettings.enabled
  /\ \E s \in Streams :
       /\ scene' = IF variant = "Settings"
                   THEN ObjectsAfterClone(scene, objectAnnotations,
                                          randomizationSettings, s)
                   ELSE PassResult(s)
       /\ lastOp' = IF PassRuns
                    THEN [name |-> "pass", cfg |-> randomizationSettings,
                          tr |-> PassTransforms, li |-> PassLights, s |-> s,
                          before |-> scene, after |-> PassResult(s)]
                    ELSE Other
  /\ UNCHANGED <<variant, objectAnnotations, randomizationSettings, samples,
                 cameraCount, rendererReady, isGenerating, progress,
                 previewImage, generatedImages, originalTransforms,
                 originalLights, sweeps, requests, ended>>
  /\ UNCHANGED <<effectVars, pipelineVars>>

\* A checkbox of the randomization section of a panel, between two previews.
toggleSubConfig ==
  /\ IsPanel(variant)
  /\ \E cfg \in SubConfigs \ {randomizationSettings} :
       randomizationSettings' = cfg
  /\ lastOp' = Other
  /\ UNCHANGED <<variant, scene, objectAnnotations, samples, cameraCount,
                 rendererReady, isGenerating, progress, previewImage,
                 generatedImages, originalTransforms, originalLights, sweeps,
                 requests, ended>>
  /\ UNCHANGED <<effectVars, pipelineVars>>

PassNext ==
  \/ RandomizePass
  \/ toggleSubConfig

PassSpec == PassInit /\ [][PassNext]_vars

\* C24: a randomize pass first puts every object back to its baseline: after
\* the pass, position, rotation, scale and light values whose sub-config is
\* switched off are the baseline values, whatever earlier passes did.
C24_DisabledComponentsAtBaseline ==
  lastOp.name = "pass" =>
    \A o \in DOMAIN lastOp.after :
      /\ (o \in DOMAIN lastOp.tr /\ ~lastOp.cfg.position) =>
           lastOp.after[o].position = lastOp.tr[o].position
      /\ (o \in DOMAIN lastOp.tr /\ ~lastOp.cfg.rotation) =>
           lastOp.after[o].rotation = lastOp.tr[o].rotation
      /\ (o \in DOMAIN lastOp.tr /\ ~lastOp.cfg.scale) =>
           lastOp.after[o].scale = lastOp.tr[o].scale
      /\ (o \in DOMAIN lastOp.li /\ ~lastOp.cfg.lighting) =>
           /\ lastOp.after[o].intensity = lastOp.li[o].intensity
           /\ lastOp.after[o].color = lastOp.li[o].color

\* C26: a randomize pass leaves position, rotation and scale of a camera
\* as they were, leaves position and scale of a light as they were, and
\* changes the rotation of a light only if it is a directional light,
\* whether or not the camera or the light has an annotation.
C26_CamerasAndLightsKeepPose ==
  lastOp.name = "pass" =>
    \A o \in DOMAIN lastOp.after :
      /\ isCamera(o) =>
           /\ lastOp.after[o].position = lastOp.before[o].position
           /\ lastOp.after[o].rotation = lastOp.before[o].rotation
           /\ lastOp.after[o].scale = lastOp.before[o].scale
      /\ isLight(o) =>
           /\ lastOp.after[o].position = lastOp.before[o].position
           /\ lastOp.after[o].scale = lastOp.before[o].scale
      /\ (isLight(o) /\ ~isDirectionalLight(o)) =>
           lastOp.after[o].rotation = lastOp.before[o].rotation

\* C27: after a pass with position randomization on, the height of every
\* object that is neither light nor camera is max(baseline.y, baseline.y +
\* jitter), and so never below the baseline height.
C27_HeightNotBelowBaseline ==
  (lastOp.name = "pass" /\ lastOp.cfg.position) =>
    \A o \in DOMAIN lastOp.after \cap DOMAIN lastOp.tr :
      (~isLight(o) /\ ~isCamera(o)) =>
        LET base == lastOp.tr[o].position[2]
            jitter == Jitter(lastOp.s, o, 1, PositionRange[2])
        IN /\ lastOp.after[o].position[2] = Max(base, base + jitter)
           /\ lastOp.after[o].position[2] >= base

\* ================================================= the panel's baseline
\* The mounted panel between sweeps: previews, restores, and changes of the
\* editor's object list, each of which runs the mount effect again.
MaxEffectRuns == 3

MountInit ==
  /\ variant \in {"Panel", "PanelOld"}
  /\ scene = InitialScene
  /\ objectAnnotations = {}
  /\ randomizationSettings \in {c \in RandomizationSettings : c.enabled}
  /\ samples = 0
  /\ cameraCount = 0
  /\ rendererReady \in BOOLEAN
  /\ isGenerating = FALSE
  /\ progress = Percent(0, 1)
  /\ previewImage = null
  /\ generatedImages = <<>>
  /\ originalTransforms = CaptureTransforms(scene, Objects)
  /\ originalLights = CaptureLights(scene, Objects)
  /\ sweeps = <<>>
  /\ requests = 0
  /\ ended = NoEnd
  /\ lastOp = Other
  /\ effect = Mounted
  /\ ExportIdle
  /\ BoxIdle
  /\ ZipIdle
  /\ StoreIdle

\* The `objects' array of the editor store is replaced: React runs the
\* cleanup of the effect, which is the restoreOriginalScene of the render
\* the effect was set up in, and then the effect body, which captures the
\* poses the objects have at that moment.
ObjectListChange ==
  /\ IsPanel(variant) /\ effect.runs < MaxEffectRuns
  /\ LET cleaned == restoreOriginalScene(scene, effect.tr, effect.li)
     IN /\ scene' = cleaned
        /\ originalTransforms' = CaptureTransforms(cleaned, Objects)
        /\ originalLights' = CaptureLights(cleaned, Objects)
  /\ effect' = [runs |-> effect.runs + 1, tr |-> originalTransforms,
                li |-> originalLights]
  /\ lastOp' = [name |-> "capture"]
  /\ UNCHANGED <<variant, objectAnnotations, randomizationSettings, samples,
                 cameraCount, rendererReady, isGenerating, progress,
                 previewImage, generatedImages, sweeps, requests, ended>>
  /\ UNCHANGED pipelineVars

MountNext ==
  \/ RandomizeScene
  \/ RestoreOriginalScene
  \/ ObjectListChange

MountSpec == MountInit /\ [][MountNext]_vars

\* C25: whenever the baseline is captured (panel mount, a change of the
\* object list after a preview, the start of a sweep, also of one that
\* follows a failed sweep) it holds the poses and light values the objects
\* had before any randomization, and a pass has a captured baseline.
C25_BaselineUnrandomized ==
  /\ originalTransforms =
       CaptureTransforms(InitialScene, DOMAIN originalTransforms)
  /\ originalLights = CaptureLights(InitialScene, DOMAIN originalLights)
  /\ \A k \in 1..Len(sweeps) :
       /\ sweeps[k].tr = CaptureTransforms(InitialScene, DOMAIN sweeps[k].tr)
       /\ sweeps[k].li = CaptureLights(InitialScene, DOMAIN sweeps[k].li)
  /\ lastOp.name = "randomize" => DOMAIN lastOp.tr # {}

LiveInit == Init /\ ~IsPanel(variant)

SweepStep(k) ==
  \/ SweepRandomize(k)
  \/ SweepCapture(k)
  \/ SweepNextSample(k)
  \/ SweepFinish(k)

LiveNext ==
  \/ updateRandomization
  \/ setObjectAnnotation
  \/ removeObjectAnnotation
  \/ handleGenerate
  \/ \E k \in 1..Len(sweeps) : SweepRandomize(k)
  \/ \E k \in 1..Len(sweeps) : SweepCapture(k)
  \/ \E k \in 1..Len(sweeps) : SweepNextSample(k)
  \/ \E k \in 1..Len(sweeps) : SweepFinish(k)

LiveSpec ==
  /\ LiveInit
  /\ [][LiveNext]_vars
  /\ \A k \in 1..MaxRequests : WF_vars(SweepStep(k))

\* C30: every call of handleGenerate ends, and isGenerating is false once it
\* has ended: after the early returns, after a thrown error and after a
\* complete sweep.
C30_GenerateEnds == isGenerating ~> ~isGenerating

\* A sweep started by handleGenerate ended with a thrown render after it had
\* randomized and captured, and isGenerating is false.
C30_Witness ==
  /\ ~IsPanel(variant)
  /\ ended.outcome = "error"
  /\ ended.passes > 0
  /\ Len(ended.progressLog) > 0
  /\ ~isGenerating

====
